---- MODULE Spec2Model ----
(***************************************************************************)
(* A model of the relay core of one-hub: channel selection, the retry      *)
(* classifier, the response dispatcher's return values and the request-    *)
(* scoped capture store.                                                   *)
(*                                                                         *)
(* Strings are sequences of text chunks, so that strings.Contains is a     *)
(* real sub-sequence test and not a flag.                                  *)
(***************************************************************************)
EXTENDS Integers, Sequences, FiniteSets, TLC

(***************************************************************************)
(* Bounds of the model.                                                    *)
(***************************************************************************)
MaxChannelId == 2
MaxRequests == 2
MaxContexts == 2
MaxCallers == 2
MaxValues == 2
MaxStoreOps == 4
MaxFrames == 2
MaxLines == 3

(***************************************************************************)
(* Program constants (net/http status codes used by relay/common.go).      *)
(***************************************************************************)
StatusOK == 200
StatusBadRequest == 400
StatusTooManyRequests == 429
StatusInternalServerError == 500
StatusTemporaryRedirect == 307
StatusRequestTimeout == 408
StatusGatewayTimeout == 504
StatusCloudflareTimeout == 524

VARIABLES
  channels,                   \* the channel registry: id -> [Status, Match]
  specific_channel_id,        \* gin key: the pinned channel id, 0 when none
  specific_channel_id_ignore, \* gin key: the pin may be ignored
  skip_channel_ids,           \* gin key: channel ids excluded so far
  channel_id,                 \* gin key: the channel chosen for this attempt
  pc,                         \* position of the request's task
  payload,                    \* what the provider call returned on success
  apiErr,                     \* the error of the last attempt, Nil when none
  disableCriteria,            \* ShouldDisableChannel's verdict on apiErr
  written,                    \* a header or body byte has reached the caller
  retry,                      \* shouldRetry's last verdict: "none", "yes", "no"
  attempts,                   \* provider attempts of the current request
  requests,                   \* requests started so far
  fetchErr,                   \* message of a failed selection, "" when none
  lastDisabled,               \* channels the classifier disabled so far
  data,                       \* ContextStorage.data: context -> key -> value
  spc,                        \* capture store callers: position of each
  sreq,                       \* capture store callers: the call in progress
  sret,                       \* capture store callers: what the last call returned
  nextValue,                  \* the next value to be stored (values are numbered)
  returned,                   \* value -> take-and-clear calls that returned it
  origin,                     \* value -> the context and key it was stored under
  storeOps,                   \* capture store calls started so far
  lst,                        \* log assembly per request: stage, loaded value, taken values
  logContent,                 \* log assembly per request: the text built so far
  streamIn,                   \* streamed delivery: dispatcher, producer's frames and terminal signal, endHandler
  script,                     \* frames the producer has not yet put on dataChan
  received,                   \* frames the dispatcher took from dataChan
  forwarded,                  \* text the dispatcher wrote to the caller's writer
  delivered,                  \* text whose write succeeded
  transcript,                 \* cache.Response
  cacheable,                  \* FALSE once cache.NoCache() was called
  connected,                  \* the caller's connection is up
  sst,                        \* dispatcher: position, errWithOP, endHandler called, a write failed
  response,                   \* aggregation: the transcript, one line per element
  lines,                      \* lines not yet processed
  fullResponse,               \* top-level fields taken from the fragments
  mergedContent,              \* merged content of the first choice / message / candidate
  toolCalls,                  \* merged tool calls
  detectedFormat,             \* "", "openai", "claude" or "gemini"
  handled,                    \* per processed line: which handler returned true, which changed the maps
  finalContent,               \* what extractFinalStreamContent returned
  xpc,                        \* aggregation: position
  relayErr,                   \* error response: the error handed to relayResponseWithErr
  requestId,                  \* error response: the request's correlation id
  sent                        \* error response: status and body written, NotSent before

relayVars ==
  <<channels, specific_channel_id, specific_channel_id_ignore, skip_channel_ids,
    channel_id, pc, payload, apiErr, disableCriteria, written, retry, attempts,
    requests, fetchErr, lastDisabled>>

storeVars == <<data, spc, sreq, sret, nextValue, returned, origin, storeOps>>

logVars == <<lst, logContent>>

streamVars == <<streamIn, script, received, forwarded, delivered, transcript,
                cacheable, connected, sst>>

extractVars == <<response, lines, fullResponse, mergedContent, toolCalls, detectedFormat,
                 handled, finalContent, xpc>>

errorVars == <<relayErr, requestId, sent>>

vars == <<relayVars, storeVars, logVars, streamVars, extractVars, errorVars>>

\* what the request loop leaves alone, and what the capture store leaves alone
nonRelayVars == <<storeVars, logVars, streamVars, extractVars, errorVars>>
nonStoreVars == <<relayVars, logVars, streamVars, extractVars, errorVars>>
nonLogVars == <<relayVars, spc, sreq, sret, returned, origin, storeOps, streamVars, extractVars,
                errorVars>>
nonStreamVars == <<relayVars, storeVars, logVars, extractVars, errorVars>>
nonExtractVars == <<relayVars, storeVars, logVars, streamVars, errorVars>>
nonErrorVars == <<relayVars, storeVars, logVars, streamVars, extractVars>>

Channels == 1..MaxChannelId

ChannelTypeAnthropic == "anthropic"
ChannelTypeOpenAI == "openai"
ChannelTypes == {ChannelTypeAnthropic, ChannelTypeOpenAI}

ChannelStatusEnabled == "enabled"
ChannelStatusAutoDisabled == "auto_disabled"
ChannelStatuses == {ChannelStatusEnabled, ChannelStatusAutoDisabled}

(***************************************************************************)
(* Strings.                                                                *)
(***************************************************************************)
OrgDisabledText == "This organization has been disabled"

\* strings.Contains(s, substr) for a one-chunk needle
Contains(s, chunk) == \E i \in 1..Len(s) : s[i] = chunk

Messages ==
  { <<>>,
    <<"bad request">>,
    <<OrgDisabledText>>,
    <<"error: ", OrgDisabledText, " (request id: 1)">> }

(***************************************************************************)
(* types.OpenAIErrorWithStatusCode; Nil is the nil pointer.                *)
(***************************************************************************)
Nil == [StatusCode |-> 0, Message |-> <<>>, LocalError |-> FALSE, Code |-> "nil"]

\* common.ErrorWrapper: an error that is not marked local
ErrorWrapper(errText, code, statusCode) ==
  [StatusCode |-> statusCode, Message |-> <<errText>>, LocalError |-> FALSE, Code |-> code]

\* common.ErrorWrapperLocal: the same error, marked LocalError
ErrorWrapperLocal(errText, code, statusCode) ==
  [StatusCode |-> statusCode, Message |-> <<errText>>, LocalError |-> TRUE, Code |-> code]

(***************************************************************************)
(* Faulty variants of shouldRetry, used to show that the retry-table       *)
(* properties depend on it: "timeouts" retries 504 and 524, "default"      *)
(* returns false at the end, "local" skips the LocalError and pin checks,  *)
(* "anychannel" applies the 400 exception to every channel type.           *)
(***************************************************************************)
shouldRetryVariant(channelId, ignore, err, channelType, v) ==
  IF err = Nil THEN FALSE
  ELSE IF v # "local" /\ err.LocalError THEN FALSE
  ELSE IF v # "local" /\ channelId > 0 /\ ~ignore THEN FALSE
  ELSE IF err.StatusCode = 429 THEN TRUE
  ELSE IF err.StatusCode = 307 THEN TRUE
  ELSE IF err.StatusCode \div 100 = 5
    THEN (IF v # "timeouts" /\ (err.StatusCode = 504 \/ err.StatusCode = 524)
          THEN FALSE ELSE TRUE)
  ELSE IF err.StatusCode = 400
    THEN (IF (v = "anychannel" \/ channelType = "anthropic")
             /\ (\E i \in 1..Len(err.Message) :
                   err.Message[i] = "This organization has been disabled")
          THEN TRUE ELSE FALSE)
  ELSE IF err.StatusCode = 408 THEN FALSE
  ELSE IF err.StatusCode \div 100 = 2 THEN FALSE
  ELSE (v # "default")

shouldRetry_timeouts(channelId, ignore, err, channelType) ==
  shouldRetryVariant(channelId, ignore, err, channelType, "timeouts")

shouldRetry_default(channelId, ignore, err, channelType) ==
  shouldRetryVariant(channelId, ignore, err, channelType, "default")

shouldRetry_local(channelId, ignore, err, channelType) ==
  shouldRetryVariant(channelId, ignore, err, channelType, "local")

shouldRetry_anychannel(channelId, ignore, err, channelType) ==
  shouldRetryVariant(channelId, ignore, err, channelType, "anychannel")

(***************************************************************************)
(* shouldRetry (relay/common.go).  channelId and ignore are the request's  *)
(* specific_channel_id and specific_channel_id_ignore.                     *)
(***************************************************************************)
shouldRetry(channelId, ignore, err, channelType) ==
  IF err = Nil THEN FALSE
  ELSE IF err.LocalError THEN FALSE
  ELSE IF channelId > 0 /\ ~ignore THEN FALSE
  ELSE IF err.StatusCode = StatusTooManyRequests THEN TRUE
  ELSE IF err.StatusCode = StatusTemporaryRedirect THEN TRUE
  ELSE IF err.StatusCode \div 100 = 5
    THEN (IF err.StatusCode = StatusGatewayTimeout
             \/ err.StatusCode = StatusCloudflareTimeout
          THEN FALSE ELSE TRUE)
  ELSE IF err.StatusCode = StatusBadRequest
    THEN (IF channelType = ChannelTypeAnthropic
             /\ Contains(err.Message, OrgDisabledText)
          THEN TRUE ELSE FALSE)
  ELSE IF err.StatusCode = StatusRequestTimeout THEN FALSE
  ELSE IF err.StatusCode \div 100 = 2 THEN FALSE
  ELSE TRUE


(***************************************************************************)
(* Channel selection (relay/common.go).  A selection result is a channel   *)
(* id (0 for a nil channel) and an error message ("" for a nil error).     *)
(* skip_only_chat is taken to be unset.                                    *)
(***************************************************************************)
Range(s) == {s[i] : i \in 1..Len(s)}

ErrInvalidChannelId == "invalid channel id"
ErrChannelDisabled == "channel disabled"
ErrNoAvailableChannel == "no available channel for group and model"
ErrConsistencyBroken == "database consistency broken"
ErrChannelNotFound == "channel not found"

\* the channels of the request's group that declare support for its model
Matching == {c \in Channels : channels[c].Match}

\* model.ChannelGroup.Next: the results the chooser may give under the
\* exclusion filter (the policy's pick is any eligible channel)
ChannelGroupNext(skipIds) ==
  LET eligible == {c \in Matching : channels[c].Status = ChannelStatusEnabled
                                      /\ c \notin Range(skipIds)}
  IN IF eligible # {}
       THEN {[channel |-> c, err |-> FALSE] : c \in eligible}
     ELSE IF Matching # {}
       THEN {[channel |-> c, err |-> TRUE] : c \in Matching}
     ELSE {[channel |-> 0, err |-> TRUE]}

\* faulty variant: the status of the pinned channel is not looked at
fetchChannelById_anyStatus(channelId) ==
  IF channelId \notin Channels
    THEN [channel |-> 0, err |-> ErrInvalidChannelId]
    ELSE [channel |-> channelId, err |-> ""]

fetchChannelById(channelId) ==
  IF channelId \notin Channels
    THEN [channel |-> 0, err |-> ErrInvalidChannelId]
  ELSE IF channels[channelId].Status # ChannelStatusEnabled
    THEN [channel |-> 0, err |-> ErrChannelDisabled]
  ELSE [channel |-> channelId, err |-> ""]

\* faulty variant: the two failure messages are exchanged
fetchChannelByModel_exchanged(skipIds) ==
  { IF r.err
      THEN [channel |-> 0,
            err |-> IF r.channel # 0 THEN ErrNoAvailableChannel
                                     ELSE ErrConsistencyBroken]
      ELSE [channel |-> r.channel, err |-> ""]
    : r \in ChannelGroupNext(skipIds) }

\* faulty variant: the exclusion list is not handed to the chooser
fetchChannelByModel_noSkip(skipIds) ==
  { IF r.err
      THEN [channel |-> 0,
            err |-> IF r.channel # 0 THEN ErrConsistencyBroken
                                     ELSE ErrNoAvailableChannel]
      ELSE [channel |-> r.channel, err |-> ""]
    : r \in ChannelGroupNext(<<>>) }

fetchChannelByModel(skipIds) ==
  { IF r.err
      THEN [channel |-> 0,
            err |-> IF r.channel # 0 THEN ErrConsistencyBroken
                                     ELSE ErrNoAvailableChannel]
      ELSE [channel |-> r.channel, err |-> ""]
    : r \in ChannelGroupNext(skipIds) }

\* faulty variant: a pin that cannot be served falls back to the model-based path
fetchChannel_fallback(channelId, ignore, skipIds) ==
  IF channelId > 0 /\ ~ignore /\ fetchChannelById(channelId).err = ""
    THEN {fetchChannelById(channelId)}
    ELSE fetchChannelByModel(skipIds)

fetchChannel(channelId, ignore, skipIds) ==
  IF channelId > 0 /\ ~ignore
    THEN {fetchChannelById(channelId)}
    ELSE fetchChannelByModel(skipIds)

(***************************************************************************)
(* The response dispatcher's four delivery modes (relay/common.go): the    *)
(* error each returns and whether it has written to the caller.            *)
(***************************************************************************)
responseJsonClient(marshalOk, writeOk) ==
  IF ~marshalOk
    THEN [err |-> ErrorWrapperLocal("marshal error", "marshal_response_body_failed",
                                    StatusInternalServerError),
          wrote |-> FALSE]
  ELSE IF ~writeOk
    THEN [err |-> ErrorWrapperLocal("write error", "write_response_body_failed",
                                    StatusInternalServerError),
          wrote |-> TRUE]
  ELSE [err |-> Nil, wrote |-> TRUE]

\* the named result errWithOP is overwritten by the final "return nil"
responseStreamClient(streamErr) ==
  LET errWithOP == IF streamErr
                     THEN ErrorWrapper("stream error", "stream_error",
                                       StatusInternalServerError)
                     ELSE Nil
  IN [err |-> Nil, wrote |-> TRUE]

responseMultipart(writeOk) ==
  IF ~writeOk
    THEN [err |-> ErrorWrapper("write error", "write_response_body_failed",
                               StatusInternalServerError),
          wrote |-> TRUE]
    ELSE [err |-> Nil, wrote |-> TRUE]

responseCustom(writeOk) ==
  IF ~writeOk
    THEN [err |-> ErrorWrapper("write error", "write_response_body_failed",
                               StatusInternalServerError),
          wrote |-> TRUE]
    ELSE [err |-> Nil, wrote |-> TRUE]

(***************************************************************************)
(* The classifier's effect on the registry (relay/common.go).              *)
(***************************************************************************)
\* controller.ShouldDisableChannel: the provider-specific criteria, an
\* external verdict on the failure
ShouldDisableChannel(channelType, err) == disableCriteria

\* controller.DisableChannel: flips the channel's status in the registry
DisableChannel(channelId) ==
  [channels EXCEPT ![channelId].Status = ChannelStatusAutoDisabled]

\* faulty variant: the channel is disabled whatever the criteria say
processChannelRelayError_always(channelId, err, channelType) ==
  DisableChannel(channelId)

\* the registry after processChannelRelayError
processChannelRelayError(channelId, err, channelType) ==
  IF ShouldDisableChannel(channelType, err)
    THEN DisableChannel(channelId)
    ELSE channels


(***************************************************************************)
(* The request-scoped capture store (common/hijack/context_response.go,    *)
(* and the same code in relay/relay_util/context_response.go).  data maps  *)
(* a context to its key -> value map; both levels are partial maps.  Each  *)
(* of Store, Load and Delete runs under the storage lock and is one step.  *)
(***************************************************************************)
Contexts == 1..MaxContexts
Callers == 1..MaxCallers

KeyRequestBody == "request_body"
KeyClientIP == "client_ip"
KeyFullResponse == "full_response"
Keys == {KeyRequestBody, KeyClientIP, KeyFullResponse}

\* stored values are numbered from 1; Load gives the empty string when absent
NoValue == 0

\* map m without key k
Without(m, k) == [x \in (DOMAIN m) \ {k} |-> m[x]]

Store(d, ctx, key, value) ==
  LET ctxData == IF ctx \in DOMAIN d THEN d[ctx] ELSE <<>>
  IN [x \in (DOMAIN d) \cup {ctx} |->
        IF x = ctx
          THEN [k \in (DOMAIN ctxData) \cup {key} |->
                  IF k = key THEN value ELSE ctxData[k]]
          ELSE d[x]]

\* faulty variant: the key is looked up in whichever context holds it
Load_anyContext(d, ctx, key) ==
  IF \E x \in DOMAIN d : key \in DOMAIN d[x]
    THEN LET x == CHOOSE y \in DOMAIN d :
                    /\ key \in DOMAIN d[y]
                    /\ (ctx \in DOMAIN d /\ key \in DOMAIN d[ctx]) => y = ctx
         IN [value |-> d[x][key], ok |-> TRUE]
    ELSE [value |-> NoValue, ok |-> FALSE]

Load(d, ctx, key) ==
  IF ctx \in DOMAIN d
    THEN IF key \in DOMAIN d[ctx]
           THEN [value |-> d[ctx][key], ok |-> TRUE]
           ELSE [value |-> NoValue, ok |-> FALSE]
    ELSE [value |-> NoValue, ok |-> FALSE]

\* faulty variant: the entry is left in place
Delete_keeps(d, ctx, key) == d

\* faulty variant: a context whose last key was deleted keeps its empty map
Delete_leavesEmpty(d, ctx, key) ==
  IF ctx \in DOMAIN d THEN [d EXCEPT ![ctx] = Without(d[ctx], key)] ELSE d

Delete(d, ctx, key) ==
  IF ctx \in DOMAIN d
    THEN LET ctxData == Without(d[ctx], key)
         IN IF DOMAIN ctxData = {}
              THEN Without(d, ctx)
              ELSE [d EXCEPT ![ctx] = ctxData]
    ELSE d

\* json.Unmarshal of the stored text into ResponseData succeeds for what
\* StoreFullResponse marshalled
UnmarshalOk(value) == value # NoValue

NoCall == [ctx |-> 0, key |-> "", value |-> NoValue]
NoReturn == [ctx |-> 0, key |-> "", value |-> NoValue, found |-> FALSE]

StoreIdle ==
  /\ data = <<>>
  /\ spc = [p \in Callers |-> "idle"]
  /\ sreq = [p \in Callers |-> NoCall]
  /\ sret = [p \in Callers |-> NoReturn]
  /\ nextValue = 1
  /\ returned = [v \in 1..MaxValues |-> 0]
  /\ origin = [v \in 1..MaxValues |-> [ctx |-> 0, key |-> ""]]
  /\ storeOps = 0

\* StoreRequestBody / StoreRequestClientIP / StoreFullResponse
StoreCall(ctx, key) ==
  /\ storeOps < MaxStoreOps
  /\ nextValue <= MaxValues
  /\ data' = Store(data, ctx, key, nextValue)
  /\ origin' = [origin EXCEPT ![nextValue] = [ctx |-> ctx, key |-> key]]
  /\ nextValue' = nextValue + 1
  /\ storeOps' = storeOps + 1
  /\ UNCHANGED <<spc, sreq, sret, returned>>
  /\ UNCHANGED nonStoreVars

\* GetAndDeleteRequestBody / GetAndDeleteRequestClientIP /
\* GetAndDeleteFullResponse, first step: Load; a miss returns not-found
GetAndDeleteLoad(p, ctx, key) ==
  /\ spc[p] = "idle"
  /\ storeOps < MaxStoreOps
  /\ storeOps' = storeOps + 1
  /\ LET r == Load(data, ctx, key)
     IN IF r.ok
          THEN /\ spc' = [spc EXCEPT ![p] = "loaded"]
               /\ sreq' = [sreq EXCEPT ![p] = [ctx |-> ctx, key |-> key, value |-> r.value]]
               /\ UNCHANGED sret
          ELSE /\ sret' = [sret EXCEPT ![p] = [ctx |-> ctx, key |-> key,
                                                value |-> r.value, found |-> FALSE]]
               /\ UNCHANGED <<spc, sreq>>
  /\ UNCHANGED <<data, nextValue, returned, origin>>
  /\ UNCHANGED nonStoreVars

\* second step, after a hit: Delete, then return the loaded value
GetAndDeleteDelete(p) ==
  /\ spc[p] = "loaded"
  /\ data' = Delete(data, sreq[p].ctx, sreq[p].key)
  /\ LET found == IF sreq[p].key = KeyFullResponse
                    THEN UnmarshalOk(sreq[p].value) ELSE TRUE
     IN /\ sret' = [sret EXCEPT ![p] = [ctx |-> sreq[p].ctx, key |-> sreq[p].key,
                                         value |-> sreq[p].value, found |-> found]]
        /\ returned' = IF found
                         THEN [returned EXCEPT ![sreq[p].value] = @ + 1]
                         ELSE returned
  /\ spc' = [spc EXCEPT ![p] = "idle"]
  /\ sreq' = [sreq EXCEPT ![p] = NoCall]
  /\ UNCHANGED <<nextValue, origin, storeOps>>
  /\ UNCHANGED nonStoreVars

StoreNext ==
  \/ \E ctx \in Contexts, key \in Keys : StoreCall(ctx, key)
  \/ \E p \in Callers, ctx \in Contexts, key \in Keys : GetAndDeleteLoad(p, ctx, key)
  \/ \E p \in Callers : GetAndDeleteDelete(p)

(***************************************************************************)
(* Log assembly (relay/relay_util/context_response.go): a request stores   *)
(* some of its request body, client IP and full response, and then         *)
(* AppendResponseToLogContent takes them back, one Load and one Delete     *)
(* at a time.  The text is a sequence of tagged parts.                     *)
(***************************************************************************)
LogStart == [stage |-> "capture", loaded |-> FALSE, value |-> NoValue, body |-> NoValue]

LogIdle ==
  /\ lst = [ctx \in Contexts |-> LogStart]
  /\ logContent = [ctx \in Contexts |-> <<>>]

\* StoreRequestBody / StoreRequestClientIP / StoreFullResponse during the
\* request; the stored value is the request's own, named by its context
Capture(ctx, key) ==
  /\ lst[ctx].stage = "capture"
  /\ Load(data, ctx, key).ok = FALSE
  /\ data' = Store(data, ctx, key, ctx)
  /\ UNCHANGED <<lst, logContent, nextValue>>
  /\ UNCHANGED nonLogVars

\* AppendResponseToLogContent is called with the log line built so far
AppendBegin(ctx) ==
  /\ lst[ctx].stage = "capture"
  /\ lst' = [lst EXCEPT ![ctx].stage = KeyRequestBody]
  /\ logContent' = [logContent EXCEPT ![ctx] = <<[part |-> "log", v |-> NoValue]>>]
  /\ UNCHANGED <<data, nextValue>>
  /\ UNCHANGED nonLogVars

\* the text after the request body was taken and the client IP was or was not
RequestBodyText(text, requestBody, clientIP, ipOk) ==
  IF ipOk
    THEN text \o <<[part |-> " | ", v |-> clientIP],
                   [part |-> "Request Body", v |-> requestBody]>>
    ELSE text \o <<[part |-> "Request Body", v |-> requestBody]>>

\* the Load of the take-and-clear the assembly has reached: the request body,
\* then the client IP only when a request body was found, then the response
AppendLoad(ctx) ==
  /\ lst[ctx].stage \in Keys
  /\ ~lst[ctx].loaded
  /\ LET r == Load(data, ctx, lst[ctx].stage)
     IN IF r.ok
          THEN /\ lst' = [lst EXCEPT ![ctx].loaded = TRUE, ![ctx].value = r.value]
               /\ UNCHANGED logContent
          ELSE IF lst[ctx].stage = KeyRequestBody
            THEN /\ lst' = [lst EXCEPT ![ctx].stage = KeyFullResponse]
                 /\ UNCHANGED logContent
          ELSE IF lst[ctx].stage = KeyClientIP
            THEN /\ lst' = [lst EXCEPT ![ctx].stage = KeyFullResponse]
                 /\ logContent' = [logContent EXCEPT ![ctx] =
                      RequestBodyText(@, lst[ctx].body, NoValue, FALSE)]
          ELSE /\ lst' = [lst EXCEPT ![ctx].stage = "returned"]
               /\ UNCHANGED logContent
  /\ UNCHANGED <<data, nextValue>>
  /\ UNCHANGED nonLogVars

\* the Delete that follows a hit, and what the assembly does with the value
AppendDelete(ctx) ==
  /\ lst[ctx].stage \in Keys
  /\ lst[ctx].loaded
  /\ data' = Delete(data, ctx, lst[ctx].stage)
  /\ IF lst[ctx].stage = KeyRequestBody
       THEN /\ lst' = [lst EXCEPT ![ctx] = [stage |-> KeyClientIP, loaded |-> FALSE,
                                            value |-> NoValue, body |-> lst[ctx].value]]
            /\ UNCHANGED logContent
     ELSE IF lst[ctx].stage = KeyClientIP
       THEN /\ lst' = [lst EXCEPT ![ctx].stage = KeyFullResponse,
                                  ![ctx].loaded = FALSE, ![ctx].value = NoValue]
            /\ logContent' = [logContent EXCEPT ![ctx] =
                 RequestBodyText(@, lst[ctx].body, lst[ctx].value, TRUE)]
     ELSE /\ lst' = [lst EXCEPT ![ctx].stage = "returned",
                                ![ctx].loaded = FALSE, ![ctx].value = NoValue]
          /\ logContent' = IF UnmarshalOk(lst[ctx].value)
               THEN [logContent EXCEPT ![ctx] =
                       Append(@, [part |-> "Response Body", v |-> lst[ctx].value])]
               ELSE logContent
  /\ UNCHANGED nextValue
  /\ UNCHANGED nonLogVars

LogNext ==
  \/ \E ctx \in Contexts, key \in Keys : Capture(ctx, key)
  \/ \E ctx \in Contexts : AppendBegin(ctx)
  \/ \E ctx \in Contexts : AppendLoad(ctx)
  \/ \E ctx \in Contexts : AppendDelete(ctx)

(***************************************************************************)
(* Streamed delivery (relay/common.go): responseStreamClient and           *)
(* responseGeneralStreamClient.  The producer puts its frames and then one *)
(* terminal signal on two unbuffered channels; gin's c.Stream calls the    *)
(* step function until it returns false or the caller is seen gone.  Text  *)
(* is a sequence of chunks, so framing and concatenation are visible.      *)
(***************************************************************************)
FrameTexts == {"a", "b"}
ErrText == "stream error"
TrailerText == "usage"
DoneText == "[DONE]"

Dispatchers == {"sse", "general"}
Terminals == {"EOF", "error"}
EndHandlers == {"nil", "empty", "trailer"}

RECURSIVE SeqsUpTo(_, _)
SeqsUpTo(S, n) ==
  IF n = 0 THEN { <<>> }
  ELSE LET shorter == SeqsUpTo(S, n - 1)
       IN shorter \cup { Append(q, x) : q \in shorter, x \in S }

\* "data: " + x + "\n\n"
SSE(x) == <<"data: ", x, "\n\n">>

\* the result of endHandler()
EndHandlerText(endHandler) == IF endHandler = "trailer" THEN <<TrailerText>> ELSE <<>>

NoStep == [pc |-> "idle", errWithOP |-> FALSE, finalized |-> FALSE, writeFailed |-> FALSE]

StreamIdle ==
  /\ streamIn = [dispatcher |-> "sse", frames |-> <<>>, terminal |-> "EOF", endHandler |-> "nil"]
  /\ script = <<>>
  /\ received = <<>>
  /\ forwarded = <<>>
  /\ delivered = <<>>
  /\ transcript = <<>>
  /\ cacheable = TRUE
  /\ connected = TRUE
  /\ sst = NoStep

\* a dispatcher is called with a stream whose producer will put up to
\* MaxFrames frames and then a terminal signal
StreamStart ==
  /\ streamIn \in [dispatcher : Dispatchers, frames : SeqsUpTo(FrameTexts, MaxFrames),
                   terminal : Terminals, endHandler : EndHandlers]
  /\ script = streamIn.frames
  /\ received = <<>>
  /\ forwarded = <<>>
  /\ delivered = <<>>
  /\ transcript = <<>>
  /\ cacheable = TRUE
  /\ connected = TRUE
  /\ sst = [NoStep EXCEPT !.pc = "streaming"]

\* fmt.Fprint(w, text): the error it returns is dropped
Fprint(text) ==
  /\ forwarded' = forwarded \o text
  /\ delivered' = IF connected THEN delivered \o text ELSE delivered
  /\ sst' = [sst EXCEPT !.writeFailed = @ \/ (~connected /\ text # <<>>)]

\* faulty variant: the transcript gets the bare frame
StreamClientFrame_bare(x) == [out |-> SSE(x), response |-> <<x>>]

\* responseStreamClient, case data := <-dataChan
StreamClientFrame(x) == [out |-> SSE(x), response |-> SSE(x)]

\* responseGeneralStreamClient, case data := <-dataChan
GeneralStreamClientFrame(x) == [out |-> <<x>>, response |-> <<x>>]

\* faulty variant: a stream error does not call cache.NoCache()
StreamClientTerminal_cached(terminal, endHandler) ==
  LET isErr == terminal # "EOF"
      called == ~isErr /\ endHandler # "nil"
      streamData == IF called THEN EndHandlerText(endHandler) ELSE <<>>
  IN [out |-> (IF isErr THEN SSE(ErrText) ELSE <<>>)
                \o (IF streamData # <<>> THEN <<"data: ">> \o streamData \o <<"\n\n">> ELSE <<>>)
                \o SSE(DoneText),
      response |-> streamData \o SSE(DoneText),
      errWithOP |-> isErr,
      noCache |-> FALSE,
      finalized |-> called]

\* faulty variant: no terminal marker after a stream error
StreamClientTerminal_bareError(terminal, endHandler) ==
  LET isErr == terminal # "EOF"
      called == ~isErr /\ endHandler # "nil"
      streamData == IF called THEN EndHandlerText(endHandler) ELSE <<>>
  IN [out |-> (IF isErr THEN SSE(ErrText) ELSE <<>>)
                \o (IF streamData # <<>> THEN <<"data: ">> \o streamData \o <<"\n\n">> ELSE <<>>)
                \o (IF isErr THEN <<>> ELSE SSE(DoneText)),
      response |-> streamData \o (IF isErr THEN <<>> ELSE SSE(DoneText)),
      errWithOP |-> isErr,
      noCache |-> isErr,
      finalized |-> called]

\* responseStreamClient, case err := <-errChan
StreamClientTerminal(terminal, endHandler) ==
  LET isErr == terminal # "EOF"
      called == ~isErr /\ endHandler # "nil"
      streamData == IF called THEN EndHandlerText(endHandler) ELSE <<>>
  IN [out |-> (IF isErr THEN SSE(ErrText) ELSE <<>>)
                \o (IF streamData # <<>> THEN <<"data: ">> \o streamData \o <<"\n\n">> ELSE <<>>)
                \o SSE(DoneText),
      response |-> streamData \o SSE(DoneText),
      errWithOP |-> isErr,
      noCache |-> isErr,
      finalized |-> called]

\* responseGeneralStreamClient, case err := <-errChan
GeneralStreamClientTerminal(terminal, endHandler) ==
  LET isErr == terminal # "EOF"
      called == endHandler # "nil"
      streamData == IF called THEN EndHandlerText(endHandler) ELSE <<>>
  IN [out |-> (IF isErr THEN <<ErrText>> ELSE <<>>) \o streamData,
      response |-> streamData,
      errWithOP |-> FALSE,
      noCache |-> isErr,
      finalized |-> called]

\* one call of the step function that receives a frame; it returns true
StreamFrame(r) ==
  /\ sst.pc = "streaming"
  /\ script # <<>>
  /\ Fprint(r.out)
  /\ transcript' = transcript \o r.response
  /\ received' = Append(received, Head(script))
  /\ script' = Tail(script)
  /\ UNCHANGED <<streamIn, cacheable, connected>>
  /\ UNCHANGED nonStreamVars

\* one call of the step function that receives the terminal signal; it
\* returns false, c.Stream returns and the dispatcher returns nil
TerminalStep(r) ==
  /\ sst.pc = "streaming"
  /\ forwarded' = forwarded \o r.out
  /\ delivered' = IF connected THEN delivered \o r.out ELSE delivered
  /\ transcript' = transcript \o r.response
  /\ cacheable' = (cacheable /\ ~r.noCache)
  /\ sst' = [pc |-> "returned", errWithOP |-> r.errWithOP, finalized |-> r.finalized,
             writeFailed |-> sst.writeFailed \/ (~connected /\ r.out # <<>>)]
  /\ UNCHANGED <<streamIn, script, received, connected>>
  /\ UNCHANGED nonStreamVars

\* the terminal signal is received after the producer's last frame was taken
StreamTerminal(r) == script = <<>> /\ TerminalStep(r)

StreamClientData ==
  /\ streamIn.dispatcher = "sse"
  /\ script # <<>>
  /\ StreamFrame(StreamClientFrame(Head(script)))

StreamClientEnd ==
  /\ streamIn.dispatcher = "sse"
  /\ StreamTerminal(StreamClientTerminal(streamIn.terminal, streamIn.endHandler))

GeneralStreamClientData ==
  /\ streamIn.dispatcher = "general"
  /\ script # <<>>
  /\ StreamFrame(GeneralStreamClientFrame(Head(script)))

GeneralStreamClientEnd ==
  /\ streamIn.dispatcher = "general"
  /\ StreamTerminal(GeneralStreamClientTerminal(streamIn.terminal, streamIn.endHandler))

\* the caller's connection goes down while the stream is delivered
Disconnect ==
  /\ sst.pc = "streaming"
  /\ connected
  /\ connected' = FALSE
  /\ UNCHANGED <<streamIn, script, received, forwarded, delivered, transcript, cacheable, sst>>
  /\ UNCHANGED nonStreamVars

\* c.Stream finds the caller gone before the next step and returns; the
\* deferred stream.Close() runs and the dispatcher returns nil
ClientGone ==
  /\ sst.pc = "streaming"
  /\ ~connected
  /\ sst' = [sst EXCEPT !.pc = "gone"]
  /\ UNCHANGED <<streamIn, script, received, forwarded, delivered, transcript, cacheable, connected>>
  /\ UNCHANGED nonStreamVars

\* select takes the terminal signal while frames wait on dataChan; the
\* waiting frames are never taken
StreamClientEndPending ==
  /\ streamIn.dispatcher = "sse"
  /\ script # <<>>
  /\ TerminalStep(StreamClientTerminal(streamIn.terminal, streamIn.endHandler))

StreamNext ==
  \/ StreamClientData
  \/ StreamClientEnd
  \/ GeneralStreamClientData
  \/ GeneralStreamClientEnd
  \/ Disconnect
  \/ ClientGone

(***************************************************************************)
(* Stream aggregation (common/hijack/context_response.go):                 *)
(* extractFinalStreamContent and its helpers.  A JSON object is a function *)
(* from field names to values, a JSON array is a sequence, free text is a  *)
(* sequence of chunks, and a type assertion on a field holds when the      *)
(* field is present.                                                       *)
(***************************************************************************)
EmptyObject == [x \in {} |-> ""]

Has(obj, k) == k \in DOMAIN obj

\* obj[k] = v
Put(obj, k, v) == [x \in (DOMAIN obj) \cup {k} |-> IF x = k THEN v ELSE obj[x]]

\* for k, v := range source { target[k] = v }
Overlay(target, source) ==
  [x \in (DOMAIN target) \cup (DOMAIN source) |->
     IF x \in DOMAIN source THEN source[x] ELSE target[x]]

\* s, _ := obj[k].(string)
Text(obj, k) == IF Has(obj, k) THEN obj[k] ELSE <<>>

formatContentWithThinking(content, thinking) ==
  IF thinking # <<>>
    THEN <<"<thinking>">> \o thinking \o <<"</thinking>\n\n">> \o content
    ELSE content

\* faulty variant: the reasoning is merged but its own field is kept
mergeThinkingToContent_residual(result) ==
  LET thinking == IF Text(result, "reasoning_content") # <<>> THEN result["reasoning_content"]
                  ELSE Text(result, "thinking")
  IN IF thinking # <<>>
       THEN Put(result, "content", formatContentWithThinking(Text(result, "content"), thinking))
       ELSE result

mergeThinkingToContent(result) ==
  LET hasThinking == Has(result, "thinking") /\ result["thinking"] # <<>>
      r1 == IF hasThinking THEN Without(result, "thinking") ELSE result
      hasReasoning == Has(r1, "reasoning_content") /\ r1["reasoning_content"] # <<>>
      r2 == IF hasReasoning THEN Without(r1, "reasoning_content") ELSE r1
      thinking == IF hasReasoning THEN result["reasoning_content"]
                  ELSE IF hasThinking THEN result["thinking"] ELSE <<>>
  IN IF thinking # <<>>
       THEN Put(r2, "content", formatContentWithThinking(Text(r2, "content"), thinking))
       ELSE r2

extractTopLevelFields(source, target, fields) ==
  [x \in (DOMAIN target) \cup (fields \cap DOMAIN source) |->
     IF x \in fields /\ x \in DOMAIN source THEN source[x] ELSE target[x]]

OpenAIFields == {"id", "object", "created", "model", "system_fingerprint", "service_tier"}
ClaudeFields == {"id", "type", "role", "model", "stop_reason", "stop_sequence"}
GeminiFields == {"modelVersion"}

\* fields of a tool call that hold scalar strings
StringFields == {"id", "type", "name"}

\* faulty variant: an empty string is taken like any other value
EmptyString_taken(k, v) == FALSE

\* the new value is a string and it is empty
EmptyString(k, v) == k \in StringFields /\ v = ""

\* faulty variant: the arguments of the new fragment replace the old ones
mergeToolCallFunction_replace(existingFunc, newFunc) == Overlay(existingFunc, newFunc)

\* mergeToolCall, the loop over the fields of "function"
mergeToolCallFunction(existingFunc, newFunc) ==
  [x \in (DOMAIN existingFunc)
         \cup {k \in DOMAIN newFunc : k = "arguments" \/ ~EmptyString(k, newFunc[k])} |->
     IF x \in DOMAIN newFunc
       THEN IF x = "arguments" THEN Text(existingFunc, x) \o newFunc[x]
            ELSE IF EmptyString(x, newFunc[x]) THEN existingFunc[x]
            ELSE newFunc[x]
       ELSE existingFunc[x]]

mergeToolCall(existing, new) ==
  [x \in (DOMAIN existing)
         \cup {k \in DOMAIN new : k = "function" \/ ~EmptyString(k, new[k])} |->
     IF x \in DOMAIN new
       THEN IF x = "function"
              THEN IF Has(existing, "function")
                     THEN mergeToolCallFunction(existing["function"], new["function"])
                     ELSE new["function"]
            ELSE IF EmptyString(x, new[x]) THEN existing[x]
            ELSE new[x]
       ELSE existing[x]]

\* what is left of the tool calls when indexing the slice panics
OutOfRange == << [panic |-> <<"index out of range">>] >>

\* index, _ := toolCall["index"].(float64): 0 unless the field holds a number
\* (a value of another JSON type is held under the key index_string);
\* (*toolCalls)[int(index)] panics for a negative index
RECURSIVE processToolCalls(_, _)
processToolCalls(value, calls) ==
  IF Len(value) = 0 \/ calls = OutOfRange THEN calls
  ELSE LET toolCall == Head(value)
           index == IF Has(toolCall, "index") THEN toolCall["index"] ELSE 0
           grown == IF Len(calls) > index THEN calls
                    ELSE calls \o [i \in 1..(index + 1 - Len(calls)) |-> EmptyObject]
       IN IF index < 0
            THEN OutOfRange
            ELSE processToolCalls(Tail(value),
                                  [grown EXCEPT ![index + 1] = mergeToolCall(@, toolCall)])

\* faulty variant: the new text replaces the old
processContentField_last(key, value, result) == Put(result, key, value)

processContentField(key, value, result) == Put(result, key, Text(result, key) \o value)

processDeltaContent(delta, result, calls) ==
  LET plain == (DOMAIN delta) \ {"tool_calls"}
  IN [mergedContent |->
        [x \in (DOMAIN result) \cup plain |->
           IF x \in plain
             THEN IF x \in {"content", "reasoning_content"}
                    THEN processContentField(x, delta[x], result)[x]
                    ELSE delta[x]
             ELSE result[x]],
      toolCalls |->
        IF Has(delta, "tool_calls") THEN processToolCalls(delta["tool_calls"], calls)
        ELSE calls]

RECURSIVE PartsText(_)
PartsText(parts) ==
  IF Len(parts) = 0 THEN <<>>
  ELSE (IF Has(Head(parts), "text") THEN Head(parts)["text"] ELSE <<>>)
       \o PartsText(Tail(parts))

processGeminiContent(content, result) ==
  LET r1 == IF Has(content, "role") THEN Put(result, "role", content["role"]) ELSE result
  IN IF Has(content, "parts") /\ \E i \in 1..Len(content["parts"]) : Has(content["parts"][i], "text")
       THEN Put(r1, "content", Text(r1, "content") \o PartsText(content["parts"]))
       ELSE r1

Handled(ok, full, merged, calls) ==
  [ok |-> ok, fullResponse |-> full, mergedContent |-> merged, toolCalls |-> calls]

\* faulty variant: the last choice of the frame is merged
processOpenAIStreamFormat_lastChoice(jsonResponse, full, merged, calls) ==
  LET f1 == extractTopLevelFields(jsonResponse, full, OpenAIFields)
      hasUsage == Has(jsonResponse, "usage")
      f2 == IF hasUsage THEN Put(f1, "usage", jsonResponse["usage"]) ELSE f1
  IN IF ~Has(jsonResponse, "choices") \/ Len(jsonResponse["choices"]) = 0
       THEN Handled(hasUsage, f2, merged, calls)
       ELSE LET choice == jsonResponse["choices"][Len(jsonResponse["choices"])]
                m1 == IF Has(choice, "finish_reason") /\ choice["finish_reason"] # ""
                        THEN Put(merged, "finish_reason", choice["finish_reason"])
                        ELSE merged
                m2 == IF Has(choice, "index") THEN Put(m1, "index", choice["index"]) ELSE m1
            IN IF ~Has(choice, "delta")
                 THEN Handled(FALSE, f2, m2, calls)
                 ELSE LET d == processDeltaContent(choice["delta"], m2, calls)
                      IN Handled(TRUE, f2, d.mergedContent, d.toolCalls)

processOpenAIStreamFormat(jsonResponse, full, merged, calls) ==
  LET f1 == extractTopLevelFields(jsonResponse, full, OpenAIFields)
      hasUsage == Has(jsonResponse, "usage")
      f2 == IF hasUsage THEN Put(f1, "usage", jsonResponse["usage"]) ELSE f1
  IN IF ~Has(jsonResponse, "choices") \/ Len(jsonResponse["choices"]) = 0
       THEN Handled(hasUsage, f2, merged, calls)
       ELSE LET choice == jsonResponse["choices"][1]
                m1 == IF Has(choice, "finish_reason") /\ choice["finish_reason"] # ""
                        THEN Put(merged, "finish_reason", choice["finish_reason"])
                        ELSE merged
                m2 == IF Has(choice, "index") THEN Put(m1, "index", choice["index"]) ELSE m1
            IN IF ~Has(choice, "delta")
                 THEN Handled(FALSE, f2, m2, calls)
                 ELSE LET d == processDeltaContent(choice["delta"], m2, calls)
                      IN Handled(TRUE, f2, d.mergedContent, d.toolCalls)

processClaudeStreamFormat(jsonResponse, full, merged, calls) ==
  IF ~Has(jsonResponse, "type") THEN Handled(FALSE, full, merged, calls)
  ELSE LET eventType == jsonResponse["type"]
       IN CASE eventType = "message_start" ->
                 IF Has(jsonResponse, "message")
                   THEN LET message == jsonResponse["message"]
                            f1 == extractTopLevelFields(message, full, ClaudeFields)
                            m1 == IF Has(message, "role")
                                    THEN Put(merged, "role", message["role"]) ELSE merged
                            f2 == IF Has(message, "usage")
                                    THEN Put(f1, "usage", message["usage"]) ELSE f1
                        IN Handled(TRUE, f2, m1, calls)
                   ELSE Handled(TRUE, full, merged, calls)
            [] eventType = "content_block_delta" ->
                 IF Has(jsonResponse, "delta")
                   THEN LET delta == jsonResponse["delta"]
                            deltaType == IF Has(delta, "type") THEN delta["type"] ELSE ""
                        IN CASE deltaType = "text_delta" /\ Has(delta, "text") ->
                                  Handled(TRUE, full,
                                          Put(merged, "content", Text(merged, "content") \o delta["text"]),
                                          calls)
                             [] deltaType = "thinking_delta" /\ Has(delta, "thinking") ->
                                  Handled(TRUE, full,
                                          Put(merged, "thinking", Text(merged, "thinking") \o delta["thinking"]),
                                          calls)
                             [] deltaType = "input_json_delta" /\ Has(delta, "partial_json")
                                  /\ Len(calls) > 0 ->
                                  Handled(TRUE, full, merged,
                                          [calls EXCEPT ![Len(calls)] =
                                             Put(@, "arguments", Text(@, "arguments") \o delta["partial_json"])])
                             [] OTHER -> Handled(TRUE, full, merged, calls)
                   ELSE Handled(TRUE, full, merged, calls)
            [] eventType = "content_block_start" ->
                 IF Has(jsonResponse, "content_block")
                    /\ Has(jsonResponse["content_block"], "type")
                    /\ jsonResponse["content_block"]["type"] = "tool_use"
                   THEN LET contentBlock == jsonResponse["content_block"]
                            toolCall == Put(extractTopLevelFields(contentBlock, EmptyObject, {"id", "name"}),
                                            "arguments", <<>>)
                        IN Handled(TRUE, full, merged, Append(calls, toolCall))
                   ELSE Handled(TRUE, full, merged, calls)
            [] eventType = "message_delta" ->
                 LET hasStop == Has(jsonResponse, "delta") /\ Has(jsonResponse["delta"], "stop_reason")
                     f1 == IF hasStop
                             THEN Put(full, "stop_reason", jsonResponse["delta"]["stop_reason"]) ELSE full
                     m1 == IF hasStop
                             THEN Put(merged, "stop_reason", jsonResponse["delta"]["stop_reason"]) ELSE merged
                     f2 == IF Has(jsonResponse, "usage")
                             THEN IF Has(f1, "usage")
                                    THEN Put(f1, "usage", Overlay(f1["usage"], jsonResponse["usage"]))
                                    ELSE Put(f1, "usage", jsonResponse["usage"])
                             ELSE f1
                 IN Handled(TRUE, f2, m1, calls)
            [] OTHER -> Handled(FALSE, full, merged, calls)

processGeminiStreamFormat(jsonResponse, full, merged) ==
  IF ~Has(jsonResponse, "candidates") \/ Len(jsonResponse["candidates"]) = 0
    THEN Handled(FALSE, full, merged, <<>>)
    ELSE LET f1 == extractTopLevelFields(jsonResponse, full, GeminiFields)
             f2 == IF Has(jsonResponse, "usageMetadata")
                     THEN Put(f1, "usageMetadata", jsonResponse["usageMetadata"]) ELSE f1
             candidate == jsonResponse["candidates"][1]
             m1 == IF Has(candidate, "finishReason") /\ candidate["finishReason"] # ""
                     THEN Put(merged, "finish_reason", candidate["finishReason"]) ELSE merged
             m2 == IF Has(candidate, "index") THEN Put(m1, "index", candidate["index"]) ELSE m1
             f3 == IF Has(candidate, "safetyRatings")
                     THEN Put(f2, "safetyRatings", candidate["safetyRatings"]) ELSE f2
         IN IF ~Has(candidate, "content")
              THEN Handled(FALSE, f3, m2, <<>>)
              ELSE Handled(TRUE, f3, processGeminiContent(candidate["content"], m2), <<>>)

\* the texts json.Unmarshal accepts as tool arguments
JSONTexts == { <<"{}">>, <<"{\"q\":", "1}">> }

buildOpenAIResponse(full, merged, calls) ==
  LET m0 == [role |-> IF Has(merged, "role") THEN merged["role"] ELSE "assistant"]
      m1 == IF Has(merged, "content") THEN Put(m0, "content", merged["content"]) ELSE m0
      m2 == IF Has(merged, "refusal") THEN Put(m1, "refusal", merged["refusal"]) ELSE m1
      message == IF Len(calls) > 0 THEN Put(m2, "tool_calls", calls) ELSE m2
      c0 == [message |-> message,
             index |-> IF Has(merged, "index") THEN merged["index"] ELSE 0]
      c1 == IF Has(merged, "finish_reason")
              THEN Put(c0, "finish_reason", merged["finish_reason"]) ELSE c0
      choice == IF Has(merged, "logprobs") THEN Put(c1, "logprobs", merged["logprobs"]) ELSE c1
      result == Put(full, "choices", <<choice>>)
  IN IF Has(result, "object") THEN result ELSE Put(result, "object", "chat.completion")

\* buildClaudeResponse, the tool_use block of one tool call
ToolUse(toolCall) ==
  LET t0 == extractTopLevelFields(toolCall, [type |-> "tool_use"], {"id", "name"})
  IN IF Has(toolCall, "arguments")
       THEN Put(t0, "input", IF toolCall["arguments"] \in JSONTexts
                               THEN [json |-> toolCall["arguments"]]
                               ELSE [raw |-> toolCall["arguments"]])
       ELSE t0

buildClaudeResponse(full, merged, calls) ==
  LET textBlocks == IF Has(merged, "content") /\ merged["content"] # <<>>
                      THEN << [type |-> "text", text |-> merged["content"]] >>
                      ELSE <<>>
      contentArr == textBlocks \o [i \in 1..Len(calls) |-> ToolUse(calls[i])]
      r1 == Put(full, "content", contentArr)
      r2 == IF Has(r1, "type") THEN r1 ELSE Put(r1, "type", "message")
  IN Put(r2, "role", IF Has(merged, "role") THEN merged["role"] ELSE "assistant")

buildGeminiResponse(full, merged) ==
  LET parts == IF Has(merged, "content") /\ merged["content"] # <<>>
                 THEN << [text |-> merged["content"]] >>
                 ELSE <<>>
      content == [role |-> IF Has(merged, "role") THEN merged["role"] ELSE "model",
                  parts |-> parts]
      c0 == [content |-> content,
             index |-> IF Has(merged, "index") THEN merged["index"] ELSE 0]
      c1 == IF Has(merged, "finish_reason")
              THEN Put(c0, "finishReason", merged["finish_reason"]) ELSE c0
      candidate == IF Has(full, "safetyRatings")
                     THEN Put(c1, "safetyRatings", full["safetyRatings"]) ELSE c1
  IN Put(Without(full, "safetyRatings"), "candidates", <<candidate>>)

buildFinalStreamResponse(format, full, merged, calls) ==
  CASE format = "openai" -> buildOpenAIResponse(full, merged, calls)
    [] format = "claude" -> buildClaudeResponse(full, merged, calls)
    [] format = "gemini" -> buildGeminiResponse(full, merged)
    [] OTHER -> IF Len(calls) > 0 THEN Put(merged, "tool_calls", calls) ELSE merged

\* a tool call's whole arguments text, and the pieces it is delivered in:
\* "T0_k" is the first fragment of the call, carrying id, name and the first
\* k chunks; "T_i_j" is a later fragment carrying chunks i..j
ArgChunks == <<"{\"q\"", ":", "1}">>

PieceOf(name) ==
  CASE name = "T0_0" -> <<1, 0>>
    [] name = "T0_1" -> <<1, 1>>
    [] name = "T0_2" -> <<1, 2>>
    [] name = "T0_3" -> <<1, 3>>
    [] name = "T_1_1" -> <<1, 1>>
    [] name = "T_2_2" -> <<2, 2>>
    [] name = "T_3_3" -> <<3, 3>>
    [] name = "T_1_2" -> <<1, 2>>
    [] name = "T_2_3" -> <<2, 3>>
    [] name = "T_1_3" -> <<1, 3>>
    [] name = "T_2_2_empty" -> <<2, 2>>

FirstPieceNames == {"T0_0", "T0_1", "T0_2", "T0_3"}
LaterPieceNames == {"T_1_1", "T_2_2", "T_3_3", "T_1_2", "T_2_3", "T_1_3"}

\* a shape-A frame whose delta carries one tool call
ToolCallFrame(toolCall) == [choices |-> << [index |-> 0, delta |-> [tool_calls |-> <<toolCall>>]] >>]

\* the JSON texts the transcripts are made of, by name
Fragment(name) ==
  CASE name = "A_text" ->
         [id |-> "chatcmpl-1", model |-> "gpt",
          choices |-> << [index |-> 0, delta |-> [role |-> "assistant", content |-> <<"Hel">>]] >>]
    [] name = "A_finish" ->
         [id |-> "chatcmpl-1",
          choices |-> << [index |-> 0, delta |-> EmptyObject, finish_reason |-> "stop"] >>]
    [] name = "A_usage" ->
         [id |-> "chatcmpl-1", choices |-> <<>>, usage |-> [prompt_tokens |-> 3, completion_tokens |-> 2]]
    [] name = "B_message_start" ->
         [type |-> "message_start",
          message |-> [id |-> "msg_1", type |-> "message", role |-> "assistant", model |-> "claude",
                       usage |-> [input_tokens |-> 3, output_tokens |-> 1]]]
    [] name = "B_content_block_delta" ->
         [type |-> "content_block_delta", index |-> 0,
          delta |-> [type |-> "text_delta", text |-> <<"Hi">>]]
    [] name = "B_message_delta" ->
         [type |-> "message_delta", delta |-> [stop_reason |-> "end_turn"],
          usage |-> [output_tokens |-> 5]]
    [] name = "B_message_stop" -> [type |-> "message_stop"]
    [] name = "C_text" ->
         [candidates |-> << [index |-> 0,
                             content |-> [role |-> "model", parts |-> << [text |-> <<"Hey">>] >>]] >>,
          modelVersion |-> "gemini"]
    [] name = "C_finish" ->
         [candidates |-> << [content |-> [parts |-> << [text |-> <<"!">>] >>], finishReason |-> "STOP"] >>,
          usageMetadata |-> [totalTokenCount |-> 7]]
    [] name = "error" -> [id |-> "req_9", error |-> [message |-> "overloaded"]]
    [] name = "A_lo" ->
         [id |-> "chatcmpl-1", choices |-> << [index |-> 0, delta |-> [content |-> <<"lo">>]] >>]
    [] name = "A_delta_stop" ->
         [choices |-> << [delta |-> [finish_reason |-> "stop"]] >>]
    [] name = "A_length" ->
         [choices |-> << [index |-> 0, delta |-> EmptyObject, finish_reason |-> "length"] >>]
    [] name = "A_reasoning1" ->
         [choices |-> << [index |-> 0, delta |-> [role |-> "assistant", reasoning_content |-> <<"th">>]] >>]
    [] name = "A_reasoning2" ->
         [choices |-> << [index |-> 0, delta |-> [reasoning_content |-> <<"ink">>]] >>]
    [] name = "B_thinking1" ->
         [type |-> "content_block_delta", index |-> 0,
          delta |-> [type |-> "thinking_delta", thinking |-> <<"th">>]]
    [] name = "B_thinking2" ->
         [type |-> "content_block_delta", index |-> 0,
          delta |-> [type |-> "thinking_delta", thinking |-> <<"ink">>]]
    [] name = "A_usage_partial" ->
         [id |-> "chatcmpl-1", choices |-> <<>>, usage |-> [prompt_tokens |-> 3]]
    [] name = "C_usage_partial" ->
         [candidates |-> << [content |-> [parts |-> << [text |-> <<"He">>] >>]] >>,
          usageMetadata |-> [promptTokenCount |-> 4]]
    [] name = "B_tool_start_0" ->
         [type |-> "content_block_start", index |-> 0,
          content_block |-> [type |-> "tool_use", id |-> "toolu_0", name |-> "lookup"]]
    [] name = "B_tool_start_1" ->
         [type |-> "content_block_start", index |-> 1,
          content_block |-> [type |-> "tool_use", id |-> "toolu_1", name |-> "search"]]
    [] name = "B_json_delta_0" ->
         [type |-> "content_block_delta", index |-> 0,
          delta |-> [type |-> "input_json_delta", partial_json |-> <<"{}">>]]
    [] name = "B_json_delta_1" ->
         [type |-> "content_block_delta", index |-> 1,
          delta |-> [type |-> "input_json_delta", partial_json |-> <<"{\"q\":", "1}">>]]
    [] name = "A_two" ->
         [id |-> "chatcmpl-1",
          choices |-> << [index |-> 0, delta |-> [role |-> "assistant", content |-> <<"Hel">>]],
                         [index |-> 1, finish_reason |-> "length",
                          delta |-> [content |-> <<"XX">>,
                                     tool_calls |-> << [index |-> 0, id |-> "call_9",
                                                        function |-> [name |-> "x", arguments |-> <<"{}">>]] >>]] >>]
    [] name = "A_two_finish" ->
         [choices |-> << [index |-> 0, delta |-> EmptyObject, finish_reason |-> "stop"],
                         [index |-> 1, delta |-> [content |-> <<"YY">>], finish_reason |-> "length"] >>]
    [] name = "C_two" ->
         [candidates |-> << [index |-> 0, content |-> [role |-> "model", parts |-> << [text |-> <<"Hey">>] >>]],
                            [index |-> 1, finishReason |-> "MAX_TOKENS",
                             content |-> [role |-> "user", parts |-> << [text |-> <<"ZZ">>] >>]] >>]
    [] name \in FirstPieceNames ->
         ToolCallFrame([index |-> 0, id |-> "call_1", type |-> "function",
                        function |-> [name |-> "f",
                                      arguments |-> SubSeq(ArgChunks, PieceOf(name)[1], PieceOf(name)[2])]])
    [] name \in LaterPieceNames ->
         ToolCallFrame([index |-> 0,
                        function |-> [arguments |-> SubSeq(ArgChunks, PieceOf(name)[1], PieceOf(name)[2])]])
    [] name = "T_2_2_empty" ->
         ToolCallFrame([index |-> 0, id |-> "", type |-> "function",
                        function |-> [name |-> "",
                                      arguments |-> SubSeq(ArgChunks, PieceOf(name)[1], PieceOf(name)[2])]])
    [] name = "T_other" ->
         ToolCallFrame([index |-> 0, id |-> "call_2", function |-> [name |-> "g", arguments |-> <<>>]])
    [] name = "T_no_index" ->
         ToolCallFrame([id |-> "call_4", type |-> "function",
                        function |-> [name |-> "h", arguments |-> <<"{}">>]])
    [] name = "T_text_index" ->
         ToolCallFrame([index_string |-> <<"1">>, id |-> "call_5", type |-> "function",
                        function |-> [name |-> "k", arguments |-> <<"{}">>]])
    [] name = "T_negative" ->
         ToolCallFrame([index |-> -1, id |-> "call_6", type |-> "function",
                        function |-> [name |-> "n", arguments |-> <<"{}">>]])
    [] name = "T1_open" ->
         ToolCallFrame([index |-> 1, id |-> "call_3", type |-> "function",
                        function |-> [name |-> "h", arguments |-> <<"{}">>]])

FragmentNames == {"A_text", "A_finish", "A_usage",
                  "B_message_start", "B_content_block_delta", "B_message_delta", "B_message_stop",
                  "C_text", "C_finish", "error"}

\* transcripts of shape-A tool-call frames
ToolCallLineTexts == FirstPieceNames \cup LaterPieceNames \cup {"T_2_2_empty", "T_other", "T1_open"}

\* transcripts of content, reasoning and finish frames
ShapeAContentNames == {"A_text", "A_lo", "A_delta_stop", "A_finish", "A_length"}
ShapeAReasoningNames == {"A_reasoning1", "A_reasoning2"}
ShapeBContentNames == {"B_message_start", "B_content_block_delta", "B_thinking1", "B_thinking2"}

ContentLineTexts ==
  ShapeAContentNames \cup ShapeAReasoningNames \cup ShapeBContentNames \cup {"[DONE]"}

\* transcripts of frames with and without usage counters
UsageLineTexts == {"A_text", "A_usage_partial", "A_usage",
                   "B_message_start", "B_content_block_delta", "B_message_delta",
                   "C_text", "C_usage_partial", "C_finish"}

\* transcripts of frames with one and with several choices or candidates
ChoiceLineTexts == {"A_two", "A_two_finish", "A_text", "A_lo", "A_finish",
                    "C_two", "C_text", "C_finish", "[DONE]"}

\* transcripts of shape-B frames that open tool blocks and carry their input
ToolBlockLineTexts == {"B_message_start", "B_tool_start_0", "B_tool_start_1",
                       "B_json_delta_0", "B_json_delta_1", "B_message_stop"}

\* transcripts of tool-call fragments whose index is absent, not a number,
\* negative or a plain number
IndexLineTexts == {"T_no_index", "T_text_index", "T_negative", "T1_open", "T_other",
                   "A_text", "A_finish"}

\* transcripts with lines that hold no JSON object
SkippedLineTexts == {"A_text", "data: A_lo", "data: A_finish\r", "data: [DONE]", "", " \r",
                     "event: message_start", "{\"choices\":[{\"delta\"",
                     "data: {\"choices\":[{\"delta\"", "null"}

\* the lines that hold a JSON object
JSONLineTexts ==
  FragmentNames \cup ToolCallLineTexts \cup (ContentLineTexts \ {"[DONE]"}) \cup UsageLineTexts
    \cup (ChoiceLineTexts \ {"[DONE]"}) \cup ToolBlockLineTexts \cup IndexLineTexts

\* a line of the transcript: "data: " + JSON, "data: [DONE]", or an empty line
LineTexts == FragmentNames \cup {"[DONE]", ""}

\* texts that are not a JSON object: a JSON object cut short, an SSE event
\* line, the JSON null
TruncatedText == "{\"choices\":[{\"delta\""
EventText == "event: message_start"
NullText == "null"

\* what a line may hold between its surrounding white space
PayloadTexts == JSONLineTexts \cup {"[DONE]", "", TruncatedText, EventText, NullText}
DataTexts == {"data: " \o body : body \in PayloadTexts}
Padded(text) == {" " \o text, text \o "\r", " " \o text \o "\r"}

\* strings.TrimSpace
TrimSpace(line) ==
  IF \E text \in PayloadTexts \cup DataTexts : line \in Padded(text)
    THEN CHOOSE text \in PayloadTexts \cup DataTexts : line \in Padded(text)
    ELSE line

\* strings.HasPrefix(line, "data: ") and strings.TrimPrefix(line, "data: ")
HasPrefix(line) == \E body \in PayloadTexts : line = "data: " \o body
TrimPrefix(line) == CHOOSE body \in PayloadTexts : line = "data: " \o body

\* json.Unmarshal into a map: an error for text that is not JSON, a nil map
\* for the JSON null
Unmarshal(jsonStr) ==
  IF jsonStr \in JSONLineTexts
    THEN [ok |-> TRUE, jsonResponse |-> Fragment(jsonStr)]
    ELSE [ok |-> FALSE, jsonResponse |-> EmptyObject]

\* parseStreamLine: nil for an empty line, the [DONE] marker and text that is
\* not a JSON object
parseStreamLine(line) ==
  LET trimmed == TrimSpace(line)
      jsonStr == IF HasPrefix(trimmed) THEN TrimPrefix(trimmed) ELSE trimmed
  IN IF trimmed = "" \/ jsonStr = "[DONE]"
       THEN [ok |-> FALSE, jsonResponse |-> EmptyObject]
       ELSE Unmarshal(jsonStr)

\* faulty variant: the loop ends at the first line that holds no object
Continue_break(parsed, rest) == IF parsed.ok THEN rest ELSE <<>>

\* continue: the loop goes on with the next line
Continue(parsed, rest) == rest

ExtractIdle ==
  /\ response = <<>>
  /\ lines = <<>>
  /\ fullResponse = EmptyObject
  /\ mergedContent = EmptyObject
  /\ toolCalls = <<>>
  /\ detectedFormat = ""
  /\ handled = <<>>
  /\ finalContent = EmptyObject
  /\ xpc = "idle"

\* extractFinalStreamContent is called with a transcript of up to MaxLines
\* lines drawn from the given texts
ExtractFrom(texts) ==
  /\ response \in SeqsUpTo(texts, MaxLines)
  /\ lines = response
  /\ fullResponse = EmptyObject
  /\ mergedContent = EmptyObject
  /\ toolCalls = <<>>
  /\ detectedFormat = ""
  /\ handled = <<>>
  /\ finalContent = EmptyObject
  /\ xpc = "lines"

ExtractStart == ExtractFrom(LineTexts)

\* one turn of the loop over the lines: the three handlers are tried in
\* order, each on the maps as the one before left them
ExtractLine ==
  /\ xpc = "lines"
  /\ lines # <<>>
  /\ LET parsed == parseStreamLine(Head(lines))
         o == processOpenAIStreamFormat(parsed.jsonResponse, fullResponse, mergedContent, toolCalls)
         c == processClaudeStreamFormat(parsed.jsonResponse, o.fullResponse, o.mergedContent, o.toolCalls)
         g == processGeminiStreamFormat(parsed.jsonResponse, c.fullResponse, c.mergedContent)
         by == IF ~parsed.ok THEN "skipped"
               ELSE IF o.ok THEN "openai"
               ELSE IF c.ok THEN "claude"
               ELSE IF g.ok THEN "gemini"
               ELSE "none"
         last == IF by \in {"skipped", "openai"} THEN o ELSE IF by = "claude" THEN c ELSE g
     IN /\ fullResponse' = IF by = "skipped" THEN fullResponse ELSE last.fullResponse
        /\ mergedContent' = IF by = "skipped" THEN mergedContent ELSE last.mergedContent
        /\ toolCalls' = IF by \in {"openai", "claude"} THEN last.toolCalls
                        ELSE IF by \in {"gemini", "none"} THEN c.toolCalls
                        ELSE toolCalls
        /\ detectedFormat' = IF by \in {"openai", "claude", "gemini"} THEN by ELSE detectedFormat
        /\ handled' = Append(handled,
             [line |-> Head(lines), by |-> by,
              applied |->
                IF by = "skipped" THEN {}
                ELSE (IF <<o.fullResponse, o.mergedContent, o.toolCalls>>
                           # <<fullResponse, mergedContent, toolCalls>>
                        THEN {"openai"} ELSE {})
                     \cup (IF by # "openai"
                              /\ <<c.fullResponse, c.mergedContent, c.toolCalls>>
                                   # <<o.fullResponse, o.mergedContent, o.toolCalls>>
                             THEN {"claude"} ELSE {})
                     \cup (IF by \notin {"openai", "claude"}
                              /\ <<g.fullResponse, g.mergedContent>>
                                   # <<c.fullResponse, c.mergedContent>>
                             THEN {"gemini"} ELSE {})])
  /\ lines' = Continue(parseStreamLine(Head(lines)), Tail(lines))
  /\ xpc' = IF toolCalls' = OutOfRange THEN "panicked" ELSE xpc
  /\ UNCHANGED <<response, finalContent>>
  /\ UNCHANGED nonExtractVars

\* after the loop: mergeThinkingToContent, then buildFinalStreamResponse
ExtractBuild ==
  /\ xpc = "lines"
  /\ lines = <<>>
  /\ mergedContent' = mergeThinkingToContent(mergedContent)
  /\ finalContent' = buildFinalStreamResponse(detectedFormat, fullResponse, mergedContent', toolCalls)
  /\ xpc' = "returned"
  /\ UNCHANGED <<response, lines, fullResponse, toolCalls, detectedFormat, handled>>
  /\ UNCHANGED nonExtractVars

ExtractNext ==
  \/ ExtractLine
  \/ ExtractBuild

(***************************************************************************)
(* The error response (relay/common.go relayResponseWithErr).  A message   *)
(* is a sequence of chunks; a correlation id in a message is one chunk.    *)
(***************************************************************************)
RequestIds == {"r1", "r2"}

\* the text "(request id: <id>)"
RequestIdText(id) == "(request id: " \o id \o ")"

\* the chunks requestIdRegex matches
requestIdRegex == {RequestIdText(id) : id \in RequestIds}

\* a chunk that contains "(request id:" and is no match of requestIdRegex
UnmatchedIdText == "(request id:)"

\* the balance and quota vocabulary (the four Chinese terms transliterated)
quotaKeywords == {"yu'e", "edu", "quota", "wu keyong qudao", "lingpai"}

\* the fixed message of a rewritten quota error
SaturatedMessage == <<"upstream saturated, retry later">>

SystemErrorTypes == {"new_api_error", "one_api_error", "shell_api_error"}
ErrorTypes == SystemErrorTypes \cup {"upstream_error", "invalid_request_error"}

ErrorMessages ==
  { <<>>,
    <<"bad request">>,
    <<"insufficient ", "quota", " on key sk-1">>,
    <<"bad request ", RequestIdText("r2")>>,
    <<"yu'e", " ", RequestIdText("r1"), RequestIdText("r2")>>,
    <<"bad request ", UnmatchedIdText>> }

ErrorStatusCodes == {StatusBadRequest, StatusTooManyRequests, StatusInternalServerError}

\* strings.Contains(err.Message, "(request id:")
ContainsRequestId(message) ==
  \E i \in 1..Len(message) : message[i] \in requestIdRegex \cup {UnmatchedIdText}

\* requestIdRegex.ReplaceAllString(err.Message, "")
ReplaceAllString(message) == SelectSeq(message, LAMBDA chunk : chunk \notin requestIdRegex)

\* utils.MessageWithRequestId
MessageWithRequestId(message, id) == message \o <<" ", RequestIdText(id)>>

\* utils.ContainsString
ContainsString(message, keywords) == \E i \in 1..Len(message) : message[i] \in keywords

\* relayResponseWithErr: the status and the error object written to the caller
relayResponseWithErr(err, id) ==
  LET stripped == IF ContainsRequestId(err.Message)
                    THEN ReplaceAllString(err.Message) ELSE err.Message
      withId == MessageWithRequestId(stripped, id)
      system == err.Type \in SystemErrorTypes
      quota == system /\ ContainsString(withId, quotaKeywords)
  IN [status |-> IF quota THEN StatusTooManyRequests ELSE err.StatusCode,
      error |-> [Type |-> IF system THEN "system_error" ELSE err.Type,
                 Message |-> IF quota THEN SaturatedMessage ELSE withId]]

NotSent == [status |-> 0, error |-> [Type |-> "", Message |-> <<>>]]

ErrorIdle ==
  /\ relayErr = [Type |-> "", Message |-> <<>>, StatusCode |-> 0]
  /\ requestId = ""
  /\ sent = NotSent

ErrorStart ==
  /\ relayErr \in [Type : ErrorTypes, Message : ErrorMessages, StatusCode : ErrorStatusCodes]
  /\ requestId \in RequestIds
  /\ sent = NotSent

RelayResponseWithErr ==
  /\ requestId # ""
  /\ sent = NotSent
  /\ sent' = relayResponseWithErr(relayErr, requestId)
  /\ UNCHANGED <<relayErr, requestId>>
  /\ UNCHANGED nonErrorVars

(***************************************************************************)
(* The request loop: select a channel, attempt the provider call, deliver  *)
(* or classify, retry with the failed channel excluded.                    *)
(***************************************************************************)
ChannelTypeOf(c) == IF c % 2 = 1 THEN ChannelTypeAnthropic ELSE ChannelTypeOpenAI

PinIds == 0..(MaxChannelId + 1)

RelayStatusCodes ==
  {StatusTemporaryRedirect, StatusBadRequest, 401, StatusRequestTimeout,
   StatusTooManyRequests, StatusInternalServerError, StatusGatewayTimeout}

RelayMessages == { <<"bad request">>, <<"error: ", OrgDisabledText>> }

\* the classified errors a provider attempt may return
UpstreamErrors ==
  [StatusCode : RelayStatusCodes, Message : RelayMessages,
   LocalError : BOOLEAN, Code : {"upstream_error"}]

Payloads == {"json", "stream", "custom", "multipart"}

RelayInit ==
  /\ channels \in [Channels -> [Status : ChannelStatuses, Match : BOOLEAN]]
  /\ specific_channel_id \in PinIds
  /\ specific_channel_id_ignore \in BOOLEAN
  /\ skip_channel_ids = <<>>
  /\ channel_id = 0
  /\ pc = "select"
  /\ payload = "none"
  /\ apiErr = Nil
  /\ disableCriteria = FALSE
  /\ written = FALSE
  /\ retry = "none"
  /\ attempts = 0
  /\ requests = 1
  /\ fetchErr = ""
  /\ lastDisabled = {}

\* no request in progress, every channel enabled
RelayIdle ==
  /\ channels = [c \in Channels |-> [Status |-> ChannelStatusEnabled, Match |-> TRUE]]
  /\ specific_channel_id = 0
  /\ specific_channel_id_ignore = FALSE
  /\ skip_channel_ids = <<>>
  /\ channel_id = 0
  /\ pc = "done"
  /\ payload = "none"
  /\ apiErr = Nil
  /\ disableCriteria = FALSE
  /\ written = FALSE
  /\ retry = "none"
  /\ attempts = 0
  /\ requests = MaxRequests
  /\ fetchErr = ""
  /\ lastDisabled = {}

\* GetProvider: fetchChannel, then the provider lookup for the chosen channel
GetProvider ==
  /\ pc = "select"
  /\ \E r \in fetchChannel(specific_channel_id, specific_channel_id_ignore,
                           skip_channel_ids) :
       IF r.err # ""
         THEN /\ fetchErr' = r.err
              /\ pc' = "done"
              /\ UNCHANGED channel_id
         ELSE /\ channel_id' = r.channel
              /\ \E providerOk \in BOOLEAN :
                   IF providerOk
                     THEN pc' = "send" /\ UNCHANGED fetchErr
                     ELSE pc' = "done" /\ fetchErr' = ErrChannelNotFound
  /\ UNCHANGED <<channels, specific_channel_id, specific_channel_id_ignore,
                 skip_channel_ids, payload, apiErr, disableCriteria, written,
                 retry, attempts, requests, lastDisabled>>
  /\ UNCHANGED nonRelayVars

\* the provider attempt fails with a classified error
SendFails ==
  /\ pc = "send"
  /\ apiErr' \in UpstreamErrors
  /\ disableCriteria' \in BOOLEAN
  /\ attempts' = attempts + 1
  /\ pc' = "classify"
  /\ UNCHANGED <<channels, specific_channel_id, specific_channel_id_ignore,
                 skip_channel_ids, channel_id, payload, written, retry,
                 requests, fetchErr, lastDisabled>>
  /\ UNCHANGED nonRelayVars

\* the provider attempt returns a payload in one of the four shapes
SendSucceeds ==
  /\ pc = "send"
  /\ payload' \in Payloads
  /\ attempts' = attempts + 1
  /\ pc' = "respond"
  /\ UNCHANGED <<channels, specific_channel_id, specific_channel_id_ignore,
                 skip_channel_ids, channel_id, apiErr, disableCriteria, written,
                 retry, requests, fetchErr, lastDisabled>>
  /\ UNCHANGED nonRelayVars

\* the dispatcher returned r: a nil error ends the request
Delivered(r) ==
  /\ apiErr' = r.err
  /\ written' = (written \/ r.wrote)
  /\ IF r.err = Nil
       THEN pc' = "done" /\ disableCriteria' = FALSE
       ELSE pc' = "classify" /\ disableCriteria' \in BOOLEAN
  /\ UNCHANGED <<channels, specific_channel_id, specific_channel_id_ignore,
                 skip_channel_ids, channel_id, payload, retry, attempts,
                 requests, fetchErr, lastDisabled>>
  /\ UNCHANGED nonRelayVars

RespondJson ==
  /\ pc = "respond" /\ payload = "json"
  /\ \E marshalOk \in BOOLEAN, writeOk \in BOOLEAN :
       Delivered(responseJsonClient(marshalOk, writeOk))

RespondStream ==
  /\ pc = "respond" /\ payload = "stream"
  /\ \E streamErr \in BOOLEAN : Delivered(responseStreamClient(streamErr))

RespondMultipart ==
  /\ pc = "respond" /\ payload = "multipart"
  /\ \E writeOk \in BOOLEAN : Delivered(responseMultipart(writeOk))

RespondCustom ==
  /\ pc = "respond" /\ payload = "custom"
  /\ \E writeOk \in BOOLEAN : Delivered(responseCustom(writeOk))

\* the failure is processed: processChannelRelayError, then shouldRetry; a
\* retry excludes the failed channel and selects again
Classify ==
  /\ pc = "classify"
  /\ channels' = processChannelRelayError(channel_id, apiErr, ChannelTypeOf(channel_id))
  /\ lastDisabled' = IF channels' # channels THEN lastDisabled \cup {channel_id}
                                             ELSE lastDisabled
  /\ IF shouldRetry(specific_channel_id, specific_channel_id_ignore, apiErr,
                    ChannelTypeOf(channel_id))
       THEN /\ retry' = "yes"
            /\ skip_channel_ids' = Append(skip_channel_ids, channel_id)
            /\ pc' = "select"
       ELSE /\ retry' = "no"
            /\ pc' = "done"
            /\ UNCHANGED skip_channel_ids
  /\ UNCHANGED <<specific_channel_id, specific_channel_id_ignore, channel_id,
                 payload, apiErr, disableCriteria, written, attempts, requests,
                 fetchErr>>
  /\ UNCHANGED nonRelayVars

\* the next request starts on the same registry with a fresh context
NewRequest ==
  /\ pc = "done"
  /\ requests < MaxRequests
  /\ requests' = requests + 1
  /\ specific_channel_id' \in PinIds
  /\ specific_channel_id_ignore' \in BOOLEAN
  /\ skip_channel_ids' = <<>>
  /\ channel_id' = 0
  /\ pc' = "select"
  /\ payload' = "none"
  /\ apiErr' = Nil
  /\ disableCriteria' = FALSE
  /\ written' = FALSE
  /\ retry' = "none"
  /\ attempts' = 0
  /\ fetchErr' = ""
  /\ UNCHANGED <<channels, lastDisabled>>
  /\ UNCHANGED nonRelayVars

Init == RelayInit /\ StoreIdle /\ LogIdle /\ ErrorIdle /\ StreamIdle /\ ExtractIdle

Next ==
  \/ GetProvider
  \/ SendFails
  \/ SendSucceeds
  \/ RespondJson
  \/ RespondStream
  \/ RespondMultipart
  \/ RespondCustom
  \/ Classify
  \/ NewRequest

Spec == Init /\ [][Next]_vars


(***************************************************************************)
(* The retry table: shouldRetry applied by the classifier to every status  *)
(* code, message, locality and pin configuration.                          *)
(***************************************************************************)
TableStatusCodes == 100..599

TableErrors ==
  [StatusCode : TableStatusCodes, Message : Messages,
   LocalError : BOOLEAN, Code : {"upstream_error"}]

TableInit ==
  /\ channels = [c \in Channels |-> [Status |-> ChannelStatusEnabled, Match |-> TRUE]]
  /\ specific_channel_id \in 0..MaxChannelId
  /\ specific_channel_id_ignore \in BOOLEAN
  /\ skip_channel_ids = <<>>
  /\ channel_id \in {c \in Channels : c <= 2}
  /\ pc = "classify"
  /\ payload = "none"
  /\ apiErr \in TableErrors \cup {Nil}
  /\ disableCriteria = FALSE
  /\ written = FALSE
  /\ retry = "none"
  /\ attempts = 1
  /\ requests = 1
  /\ fetchErr = ""
  /\ lastDisabled = {}

TableNext == Classify

RetryTableInit == TableInit /\ StoreIdle /\ LogIdle /\ ErrorIdle /\ StreamIdle /\ ExtractIdle

SpecRetryTable == RetryTableInit /\ [][TableNext]_vars

\* the request is pinned to a channel and the pin may not be ignored
Pinned == specific_channel_id > 0 /\ ~specific_channel_id_ignore

\* the classifier has judged a non-local error of an unpinned request
JudgedUpstream ==
  /\ retry # "none"
  /\ apiErr # Nil
  /\ ~apiErr.LocalError
  /\ ~Pinned

\* C1: a non-local error on an unpinned request is retried for 429, for 307
\* and for every 5xx other than 504 and 524, and is not retried for 504, 524.
C1_RetryableStatuses ==
  JudgedUpstream =>
    /\ (apiErr.StatusCode \in {429, 307}) => retry = "yes"
    /\ (apiErr.StatusCode \in 500..599 \ {504, 524}) => retry = "yes"
    /\ (apiErr.StatusCode \in {504, 524}) => retry = "no"

C1_Witness ==
  JudgedUpstream /\ apiErr.StatusCode = 503 /\ retry = "yes"

C3_LocalPinnedNilNotRetried ==
  (retry # "none" /\ (apiErr = Nil \/ apiErr.LocalError \/ Pinned)) => retry = "no"

C3_Witness ==
  /\ retry = "no"
  /\ apiErr.StatusCode = 429
  /\ \/ apiErr.LocalError /\ ~Pinned
     \/ ~apiErr.LocalError /\ Pinned

\* C4: for a non-local error on an unpinned request, 400 is retried exactly
\* when the channel is an Anthropic channel and the message contains the
\* organization-disabled text; 408 and every 2xx are never retried.
C4_BadRequestException ==
  JudgedUpstream =>
    /\ (apiErr.StatusCode = 400) =>
         ((retry = "yes") <=>
            (ChannelTypeOf(channel_id) = ChannelTypeAnthropic
             /\ \E i \in 1..Len(apiErr.Message) : apiErr.Message[i] = OrgDisabledText))
    /\ (apiErr.StatusCode = 408 \/ apiErr.StatusCode \in 200..299) => retry = "no"

C4_Witness ==
  /\ JudgedUpstream
  /\ apiErr.StatusCode = 400
  /\ Len(apiErr.Message) = 3
  /\ retry = "yes"


(***************************************************************************)
(* Properties of the request loop, checked under Spec.                     *)
(***************************************************************************)
\* C5 (as claimed): once a delivery mode has written a header or body byte
\* to the caller, the outcome it returns is never judged retryable.
C5_NoRetryAfterFirstByte ==
  (pc = "classify" /\ written) =>
    ~shouldRetry(specific_channel_id, specific_channel_id_ignore, apiErr,
                 ChannelTypeOf(channel_id))

\* C6 (as claimed): every failure that originates inside the gateway, a
\* serialization failure or a failed write to the caller, is a local error.
C6_GatewayFailuresAreLocal ==
  (apiErr.Code \in {"marshal_response_body_failed", "write_response_body_failed"})
    => apiErr.LocalError

NoDuplicates(s) == \A i, j \in 1..Len(s) : s[i] = s[j] => i = j

\* C7: the retry loop is bounded by the exclusion list: every retried attempt
\* has added its channel to the list exactly once, a pinned request makes at
\* most one attempt, and an unpinned request makes at most as many attempts
\* as there are channels matching its group and model.
C7_AttemptsBounded ==
  /\ NoDuplicates(skip_channel_ids)
  /\ Len(skip_channel_ids) <= attempts
  /\ (pc = "select" /\ retry = "yes") =>
       /\ Len(skip_channel_ids) = attempts
       /\ skip_channel_ids[Len(skip_channel_ids)] = channel_id
  /\ Pinned => attempts <= 1
  /\ ~Pinned => attempts <= Cardinality(Matching)

C7_Witness ==
  /\ pc = "done"
  /\ fetchErr # ""
  /\ attempts >= 2
  /\ attempts = Cardinality(Matching)
  /\ Len(skip_channel_ids) = attempts

\* C8: a channel the classifier has disabled is never returned by a later
\* selection, on the pinned path as on the model-based path.
C8_DisabledNeverSelected ==
  (pc = "send") => channel_id \notin lastDisabled

C8_Witness ==
  /\ requests >= 2
  /\ Pinned
  /\ specific_channel_id \in lastDisabled
  /\ pc = "done"
  /\ fetchErr = ErrChannelDisabled

\* C9 (as claimed): processing a failure changes a channel's status exactly
\* when the failure is not retryable and meets the disable criteria.
C9_DisableOnlyNonRetryable ==
  [][(pc = "classify") =>
       ((channels' # channels) <=>
          (disableCriteria
           /\ ~shouldRetry(specific_channel_id, specific_channel_id_ignore, apiErr,
                           ChannelTypeOf(channel_id))))]_vars

\* C9 (amended): processing a failure disables the failed channel exactly when
\* the failure meets the disable criteria, whether or not it is retryable; a
\* failure that does not meet them leaves every channel's status unchanged,
\* and no other channel is ever touched.
C9_DisableIffCriteria ==
  [][(pc = "classify") =>
       /\ disableCriteria => channels'[channel_id].Status = ChannelStatusAutoDisabled
       /\ ~disableCriteria => channels' = channels
       /\ \A c \in Channels \ {channel_id} : channels'[c] = channels[c]]_vars

C9_Witness ==
  /\ pc = "select"
  /\ retry = "yes"
  /\ channel_id \in lastDisabled
  /\ channels[channel_id].Status = ChannelStatusAutoDisabled


(***************************************************************************)
(* The capture store under concurrent callers.                             *)
(***************************************************************************)
StoreInit == StoreIdle /\ RelayIdle /\ LogIdle /\ ErrorIdle /\ StreamIdle /\ ExtractIdle

SpecStore == StoreInit /\ [][StoreNext]_vars

\* C10 (as claimed): each stored value is consumed at most once: no value is
\* returned with found = true by more than one take-and-clear call.
C10_ConsumedExactlyOnce ==
  \A v \in 1..MaxValues : returned[v] <= 1


\* a caller's take-and-clear returned a value: it was stored under that very
\* context and key
ReturnsOwnValue(p) ==
  sret[p].found =>
    /\ sret[p].value \in 1..MaxValues
    /\ origin[sret[p].value] = [ctx |-> sret[p].ctx, key |-> sret[p].key]

\* C11: whatever the interleaving, a take-and-clear on context t and key k
\* returns only a value stored under (t, k), and no step of a call on one
\* context removes or alters what is stored under another context.
C11_NoCrossTalk ==
  [][/\ \A p \in Callers : ReturnsOwnValue(p)'
     /\ \A p \in Callers :
          (spc[p] = "loaded" /\ spc'[p] = "idle") =>
            \A c \in (DOMAIN data) \ {sreq[p].ctx} :
              c \in DOMAIN data' /\ data'[c] = data[c]
     /\ (nextValue' # nextValue) =>
          \A c \in (DOMAIN data) \ {origin'[nextValue].ctx} :
            c \in DOMAIN data' /\ data'[c] = data[c]]_vars

C11_Witness ==
  \E p \in Callers :
    /\ sret[p].found
    /\ \E c \in (DOMAIN data) \ {sret[p].ctx} : sret[p].key \in DOMAIN data[c]

\* C12: a take-and-clear on a context or key that holds nothing returns
\* not-found and leaves the store as it was, and once a value has been
\* returned by a take-and-clear no later call loads it again.
C12_MissReturnsNotFound ==
  [][\A p \in Callers :
       /\ \A ctx \in Contexts, key \in Keys :
            (GetAndDeleteLoad(p, ctx, key)
             /\ (ctx \notin DOMAIN data \/ key \notin DOMAIN data[ctx])) =>
              /\ data' = data
              /\ spc'[p] = "idle"
              /\ sret'[p] = [ctx |-> ctx, key |-> key, value |-> NoValue, found |-> FALSE]
       /\ (spc[p] = "idle" /\ spc'[p] = "loaded") => returned[sreq'[p].value] = 0]_vars

C12_Witness ==
  \E p \in Callers, v \in 1..MaxValues :
    /\ returned[v] >= 1
    /\ sret[p].ctx # 0
    /\ ~sret[p].found
    /\ origin[v] = [ctx |-> sret[p].ctx, key |-> sret[p].key]
    /\ data = <<>>


(***************************************************************************)
(* Log assembly of concurrent requests.                                    *)
(***************************************************************************)
LogInit == RelayIdle /\ StoreIdle /\ LogIdle /\ ErrorIdle /\ StreamIdle /\ ExtractIdle

SpecLog == LogInit /\ [][LogNext]_vars

\* C13 (as claimed): once AppendResponseToLogContent has returned for a
\* request, the capture store holds no entry of any kind for its context,
\* whichever of the three kinds the request had stored.
C13_NoLeakAfterLogAssembly ==
  \A ctx \in Contexts : (lst[ctx].stage = "returned") => ctx \notin DOMAIN data

(***************************************************************************)
(* Streamed delivery of one response through either dispatcher.            *)
(***************************************************************************)
StreamInit == RelayIdle /\ StoreIdle /\ LogIdle /\ ErrorIdle /\ StreamStart /\ ExtractIdle

SpecStream == StreamInit /\ [][StreamNext]_vars

IsPrefix(q, text) == Len(q) <= Len(text) /\ SubSeq(text, 1, Len(q)) = q

RECURSIVE SSEFrames(_)
SSEFrames(frames) ==
  IF frames = <<>> THEN <<>> ELSE SSE(Head(frames)) \o SSEFrames(Tail(frames))

C15_ErrorMarksNoCache ==
  /\ (sst.pc = "returned" /\ streamIn.terminal = "error") =>
       /\ ~cacheable
       /\ IF streamIn.dispatcher = "sse"
            THEN IsPrefix(SSEFrames(received) \o SSE(ErrText), forwarded)
            ELSE IsPrefix(received \o <<ErrText>>, forwarded)
  /\ (streamIn.terminal = "EOF") => cacheable

C15_Witness ==
  /\ sst.pc = "returned"
  /\ streamIn.terminal = "error"
  /\ received # <<>>
  /\ Contains(delivered, ErrText)
  /\ ~cacheable

\* C16 (as claimed): the finalizer is invoked and its trailer written or
\* appended only when the stream ended with plain end-of-stream, in both
\* dispatchers.
C16_TrailerOnlyAfterEOF ==
  (sst.finalized \/ Contains(forwarded, TrailerText) \/ Contains(transcript, TrailerText))
    => streamIn.terminal = "EOF"

\* C17 (as claimed): once a write to the caller has failed, no later frame is
\* taken, delivered or appended to the transcript.
C17_WriteFailureAborts ==
  [][sst.writeFailed =>
       (received' = received /\ delivered' = delivered /\ transcript' = transcript)]_vars

\* C18 (as claimed): when the dispatcher stopped because the caller
\* disconnected, the transcript captured so far is marked do-not-cache.
C18_DisconnectMarksNoCache == (sst.pc = "gone") => ~cacheable

(***************************************************************************)
(* Aggregation of one transcript.                                          *)
(***************************************************************************)
ExtractInit == RelayIdle /\ StoreIdle /\ LogIdle /\ ErrorIdle /\ StreamIdle /\ ExtractStart

SpecExtract == ExtractInit /\ [][ExtractNext]_vars

\* the shape a fragment has by its structure (spec 4.4): A has choices, B a
\* discriminating type field, C candidates; tested in that order
ShapeOf(jsonResponse) ==
  IF Has(jsonResponse, "choices") THEN "openai"
  ELSE IF Has(jsonResponse, "type") THEN "claude"
  ELSE IF Has(jsonResponse, "candidates") THEN "gemini"
  ELSE "none"

\* C19 (as claimed): every parsed fragment is taken only by the handler of
\* its own shape, no other handler changes the aggregate for it, and a
\* fragment no handler takes leaves the aggregate as it was.
C19_FirstMatchingHandlerOnly ==
  \A i \in 1..Len(handled) :
    (handled[i].by # "skipped") =>
      /\ handled[i].by \in {ShapeOf(Fragment(handled[i].line)), "none"}
      /\ handled[i].applied \subseteq {handled[i].by}
      /\ (handled[i].by = "none") => handled[i].applied = {}

\* the frames of the transcript, without empty lines and [DONE] markers
FramesOf(text) == SelectSeq(text, LAMBDA line : line \in FragmentNames)

OnlyShape(shape) ==
  /\ \A i \in 1..Len(response) :
       response[i] \in FragmentNames => ShapeOf(Fragment(response[i])) = shape
  /\ \E i \in 1..Len(handled) : handled[i].by \notin {"skipped", "none"}

\* C20 (as claimed): the object built from a transcript of one provider's
\* frames has that provider's shape and no other's.
C20_AggregateInProviderShape ==
  (xpc = "returned") =>
    /\ OnlyShape("claude") =>
         /\ Has(finalContent, "type") /\ finalContent["type"] = "message"
         /\ Has(finalContent, "content")
         /\ ~Has(finalContent, "choices") /\ ~Has(finalContent, "candidates")
    /\ OnlyShape("openai") =>
         /\ Has(finalContent, "choices") /\ Has(finalContent["choices"][1], "message")
         /\ ~Has(finalContent, "content") /\ ~Has(finalContent, "candidates")
    /\ OnlyShape("gemini") =>
         /\ Has(finalContent, "candidates")
         /\ Has(finalContent["candidates"][1]["content"], "parts")
         /\ ~Has(finalContent, "choices") /\ ~Has(finalContent, "content")

(***************************************************************************)
(* Aggregation of transcripts of shape-A tool-call frames.                 *)
(***************************************************************************)
ToolCallsInit ==
  RelayIdle /\ StoreIdle /\ LogIdle /\ ErrorIdle /\ StreamIdle /\ ExtractFrom(ToolCallLineTexts)

SpecToolCalls == ToolCallsInit /\ [][ExtractNext]_vars

\* the transcript delivers ArgChunks, split into consecutive pieces in order
IsSplit(text) ==
  /\ Len(text) >= 1
  /\ text[1] \in FirstPieceNames
  /\ \A i \in 2..Len(text) :
       /\ text[i] \in LaterPieceNames
       /\ PieceOf(text[i])[1] = PieceOf(text[i - 1])[2] + 1
  /\ PieceOf(text[Len(text)])[2] = Len(ArgChunks)

\* the tool calls of the object extractFinalStreamContent returned
FinalToolCalls ==
  IF Has(finalContent, "choices") /\ Has(finalContent["choices"][1]["message"], "tool_calls")
    THEN finalContent["choices"][1]["message"]["tool_calls"]
    ELSE <<>>

\* C21: however the arguments text of a tool call is split into consecutive
\* pieces delivered in order at one index, the aggregate holds one tool call
\* whose arguments are the unsplit text and whose id and name are the first
\* fragment's.
C21_SplitInvariance ==
  (xpc = "returned" /\ IsSplit(response)) =>
    /\ Len(FinalToolCalls) = 1
    /\ FinalToolCalls[1]["function"]["arguments"] = ArgChunks
    /\ FinalToolCalls[1]["id"] = "call_1"
    /\ FinalToolCalls[1]["function"]["name"] = "f"

C21_Witness ==
  /\ xpc = "returned"
  /\ IsSplit(response)
  /\ Len(response) = 3
  /\ PieceOf(response[1])[2] = 0
  /\ Len(FinalToolCalls) = 1

\* id and function name of the merged tool call at position i ("" when unset)
IdOf(calls, i) == IF Has(calls[i], "id") THEN calls[i]["id"] ELSE ""

NameOf(calls, i) ==
  IF Has(calls[i], "function") /\ Has(calls[i]["function"], "name")
    THEN calls[i]["function"]["name"] ELSE ""

ArgumentsOf(calls, i) ==
  IF Has(calls[i], "function") /\ Has(calls[i]["function"], "arguments")
    THEN calls[i]["function"]["arguments"] ELSE <<>>

\* C24: an id or function name that is non-empty never becomes empty, and a
\* fragment whose id and name are empty strings leaves both as they were.
C24_EmptyNeverOverwrites ==
  [][\A i \in 1..Len(toolCalls) :
       /\ i <= Len(toolCalls')
       /\ (IdOf(toolCalls, i) # "") => IdOf(toolCalls', i) # ""
       /\ (NameOf(toolCalls, i) # "") => NameOf(toolCalls', i) # ""
       /\ (lines # <<>> /\ Head(lines) = "T_2_2_empty" /\ i = 1) =>
            /\ IdOf(toolCalls', i) = IdOf(toolCalls, i)
            /\ NameOf(toolCalls', i) = NameOf(toolCalls, i)]_vars

C24_Witness ==
  /\ Len(handled) >= 2
  /\ handled[1].line \in FirstPieceNames
  /\ handled[2].line = "T_2_2_empty"
  /\ IdOf(toolCalls, 1) = "call_1"
  /\ NameOf(toolCalls, 1) = "f"

\* C25 (as claimed): once an id or function name is non-empty no later
\* fragment changes it, and arguments only grow by appending.
C25_SetOnce ==
  [][\A i \in 1..Len(toolCalls) :
       /\ i <= Len(toolCalls')
       /\ (IdOf(toolCalls, i) # "") => IdOf(toolCalls', i) = IdOf(toolCalls, i)
       /\ (NameOf(toolCalls, i) # "") => NameOf(toolCalls', i) = NameOf(toolCalls, i)
       /\ IsPrefix(ArgumentsOf(toolCalls, i), ArgumentsOf(toolCalls', i))]_vars

(***************************************************************************)
(* Aggregation of transcripts of content, reasoning and finish frames.     *)
(***************************************************************************)
ContentInit ==
  RelayIdle /\ StoreIdle /\ LogIdle /\ ErrorIdle /\ StreamIdle /\ ExtractFrom(ContentLineTexts)

SpecContent == ContentInit /\ [][ExtractNext]_vars

\* the text a line carries on a channel ("content" or "reasoning"), read off
\* the frame itself: choices[0].delta.content / reasoning_content in shape A,
\* a text_delta / thinking_delta in shape B
TextCarried(line, channel) ==
  IF line \notin JSONLineTexts THEN <<>>
  ELSE LET j == Fragment(line)
       IN IF Has(j, "choices")
            THEN IF Len(j["choices"]) > 0 /\ Has(j["choices"][1], "delta")
                   THEN Text(j["choices"][1]["delta"],
                             IF channel = "content" THEN "content" ELSE "reasoning_content")
                   ELSE <<>>
          ELSE IF Has(j, "type") /\ j["type"] = "content_block_delta" /\ Has(j, "delta")
            THEN Text(j["delta"], IF channel = "content" THEN "text" ELSE "thinking")
          ELSE <<>>

RECURSIVE AllText(_, _)
AllText(text, channel) ==
  IF text = <<>> THEN <<>>
  ELSE TextCarried(Head(text), channel) \o AllText(Tail(text), channel)

\* the finish reason a shape-A line carries, "" when it carries none
FinishCarried(line) ==
  IF line \notin ShapeAContentNames THEN ""
  ELSE LET choice == Fragment(line)["choices"][1]
       IN IF Has(choice, "finish_reason") THEN choice["finish_reason"]
          ELSE IF Has(choice["delta"], "finish_reason") THEN choice["delta"]["finish_reason"]
          ELSE ""

RECURSIVE LastFinish(_)
LastFinish(text) ==
  IF text = <<>> THEN ""
  ELSE IF FinishCarried(text[Len(text)]) # "" THEN FinishCarried(text[Len(text)])
  ELSE LastFinish(SubSeq(text, 1, Len(text) - 1))

OnlyLines(names) ==
  /\ \A i \in 1..Len(response) : response[i] \in names \cup {"[DONE]"}
  /\ \E i \in 1..Len(response) : response[i] \in names

\* C22: for a shape-A transcript the content of choices[0].message is the
\* concatenation of the frames' content deltas in arrival order, and the
\* finish_reason is that of the last frame carrying one.
C22_ContentConcatenated ==
  (xpc = "returned" /\ OnlyLines(ShapeAContentNames)) =>
    LET choice == finalContent["choices"][1]
    IN /\ Len(finalContent["choices"]) = 1
       /\ Text(choice["message"], "content") = AllText(response, "content")
       /\ IF LastFinish(response) = ""
            THEN ~Has(choice, "finish_reason")
            ELSE Has(choice, "finish_reason") /\ choice["finish_reason"] = LastFinish(response)

C22_Witness ==
  /\ xpc = "returned"
  /\ response = <<"A_text", "A_lo", "A_delta_stop">>
  /\ finalContent["choices"][1]["message"]["content"] = <<"Hel", "lo">>
  /\ finalContent["choices"][1]["finish_reason"] = "stop"

\* the reasoning of the transcript in its delimiters, then its main text
WrappedText(text) ==
  <<"<thinking>">> \o AllText(text, "reasoning") \o <<"</thinking>\n\n">> \o AllText(text, "content")

\* C23: when a transcript of one shape accumulated reasoning over one or
\* more frames, the merged content is the delimiter-wrapped reasoning
\* followed by the main text, it is the only content of the object returned,
\* and neither holds a reasoning_content or thinking field.
C23_ReasoningMergedOnce ==
  (xpc = "returned" /\ AllText(response, "reasoning") # <<>>) =>
    /\ (OnlyLines(ShapeAContentNames \cup ShapeAReasoningNames) \/ OnlyLines(ShapeBContentNames)) =>
         /\ mergedContent["content"] = WrappedText(response)
         /\ ~Has(mergedContent, "reasoning_content") /\ ~Has(mergedContent, "thinking")
         /\ ~Has(finalContent, "reasoning_content") /\ ~Has(finalContent, "thinking")
    /\ OnlyLines(ShapeAContentNames \cup ShapeAReasoningNames) =>
         /\ finalContent["choices"][1]["message"]["content"] = WrappedText(response)
         /\ ~Has(finalContent["choices"][1]["message"], "reasoning_content")
         /\ ~Has(finalContent, "content")
    /\ OnlyLines(ShapeBContentNames) =>
         /\ finalContent["content"] = << [type |-> "text", text |-> WrappedText(response)] >>
         /\ ~Has(finalContent, "choices")

C23_Witness ==
  /\ xpc = "returned"
  /\ response = <<"B_thinking1", "B_thinking2", "B_content_block_delta">>
  /\ finalContent["content"][1]["text"] = <<"<thinking>", "th", "ink", "</thinking>\n\n", "Hi">>

(***************************************************************************)
(* Aggregation of transcripts of frames with and without usage counters.   *)
(***************************************************************************)
UsageInit ==
  RelayIdle /\ StoreIdle /\ LogIdle /\ ErrorIdle /\ StreamIdle /\ ExtractFrom(UsageLineTexts)

SpecUsage == UsageInit /\ [][ExtractNext]_vars

\* the usage counters a line carries, read off the frame itself
UsageCarried(line) ==
  IF line \notin JSONLineTexts THEN EmptyObject
  ELSE LET j == Fragment(line)
       IN IF Has(j, "usage") THEN j["usage"]
          ELSE IF Has(j, "usageMetadata") THEN j["usageMetadata"]
          ELSE IF Has(j, "message") /\ Has(j["message"], "usage") THEN j["message"]["usage"]
          ELSE EmptyObject

\* the shallow merge of the usage counters of the lines, in order
RECURSIVE MergedUsage(_)
MergedUsage(text) ==
  IF text = <<>> THEN EmptyObject
  ELSE Overlay(MergedUsage(SubSeq(text, 1, Len(text) - 1)), UsageCarried(text[Len(text)]))

OneShape ==
  \E shape \in {"openai", "claude", "gemini"} :
    \A i \in 1..Len(response) :
      response[i] \in JSONLineTexts => ShapeOf(Fragment(response[i])) = shape

\* C26 (as claimed): the usage of the object built from a transcript of one
\* shape is the shallow merge of the usage counters of its frames.
C26_UsageShallowMerged ==
  (xpc = "returned" /\ OneShape /\ DOMAIN MergedUsage(response) # {}) =>
    (IF Has(finalContent, "usage") THEN finalContent["usage"]
     ELSE IF Has(finalContent, "usageMetadata") THEN finalContent["usageMetadata"]
     ELSE EmptyObject) = MergedUsage(response)

(***************************************************************************)
(* Aggregation of transcripts whose frames hold several choices.           *)
(***************************************************************************)
ChoicesInit ==
  RelayIdle /\ StoreIdle /\ LogIdle /\ ErrorIdle /\ StreamIdle /\ ExtractFrom(ChoiceLineTexts)

SpecChoices == ChoicesInit /\ [][ExtractNext]_vars

\* what the loop body makes of one JSON object: the three handlers in order
FormatsTried(jsonResponse, agg) ==
  LET o == processOpenAIStreamFormat(jsonResponse, agg.fullResponse, agg.mergedContent, agg.toolCalls)
      c == processClaudeStreamFormat(jsonResponse, o.fullResponse, o.mergedContent, o.toolCalls)
      g == processGeminiStreamFormat(jsonResponse, c.fullResponse, c.mergedContent)
  IN IF o.ok
       THEN [fullResponse |-> o.fullResponse, mergedContent |-> o.mergedContent,
             toolCalls |-> o.toolCalls, detectedFormat |-> "openai"]
     ELSE IF c.ok
       THEN [fullResponse |-> c.fullResponse, mergedContent |-> c.mergedContent,
             toolCalls |-> c.toolCalls, detectedFormat |-> "claude"]
     ELSE [fullResponse |-> g.fullResponse, mergedContent |-> g.mergedContent,
           toolCalls |-> c.toolCalls,
           detectedFormat |-> IF g.ok THEN "gemini" ELSE agg.detectedFormat]

\* what extractFinalStreamContent returns for a sequence of JSON objects
RECURSIVE FramesAggregated(_, _)
FramesAggregated(frames, agg) ==
  IF Len(frames) = 0
    THEN buildFinalStreamResponse(agg.detectedFormat, agg.fullResponse,
                                  mergeThinkingToContent(agg.mergedContent), agg.toolCalls)
    ELSE FramesAggregated(Tail(frames), FormatsTried(Head(frames), agg))

NothingAggregated ==
  [fullResponse |-> EmptyObject, mergedContent |-> EmptyObject, toolCalls |-> <<>>,
   detectedFormat |-> ""]

\* the frame without its choices and candidates after the first
FirstOnly(jsonResponse) ==
  [k \in DOMAIN jsonResponse |->
     IF k \in {"choices", "candidates"} /\ Len(jsonResponse[k]) > 1
       THEN <<jsonResponse[k][1]>>
       ELSE jsonResponse[k]]

JSONLinesOf(text) == SelectSeq(text, LAMBDA line : line \in JSONLineTexts)

\* C27: the object built from a transcript is the one built from the same
\* frames with every choice and candidate after the first removed, and it
\* holds exactly one choice or candidate.
C27_FirstChoiceOnly ==
  (xpc = "returned") =>
    LET frames == JSONLinesOf(response)
    IN /\ finalContent =
            FramesAggregated([i \in 1..Len(frames) |-> FirstOnly(Fragment(frames[i]))],
                             NothingAggregated)
       /\ Has(finalContent, "choices") => Len(finalContent["choices"]) = 1
       /\ Has(finalContent, "candidates") => Len(finalContent["candidates"]) = 1

C27_Witness ==
  /\ xpc = "returned"
  /\ response = <<"A_two", "A_lo", "A_two_finish">>
  /\ finalContent["choices"][1]["message"]["content"] = <<"Hel", "lo">>
  /\ finalContent["choices"][1]["finish_reason"] = "stop"
  /\ ~Has(finalContent["choices"][1]["message"], "tool_calls")

(***************************************************************************)
(* Aggregation of transcripts with lines that hold no JSON object.         *)
(***************************************************************************)
SkippedInit ==
  RelayIdle /\ StoreIdle /\ LogIdle /\ ErrorIdle /\ StreamIdle /\ ExtractFrom(SkippedLineTexts)

SpecSkipped == SkippedInit /\ [][ExtractNext]_vars

\* the ways a line can hold the JSON object named
ObjectLines(name) ==
  {name, "data: " \o name, name \o "\r", "data: " \o name \o "\r", " " \o name}

IsObjectLine(line) == \E name \in JSONLineTexts : line \in ObjectLines(name)

ObjectOf(line) == Fragment(CHOOSE name \in JSONLineTexts : line \in ObjectLines(name))

\* C28: the object built from a transcript is the one built from its lines
\* that hold a JSON object, in order; blank lines, the terminal marker, SSE
\* lines without data and truncated JSON contribute nothing.
C28_InvalidLinesSkipped ==
  (xpc = "returned") =>
    LET kept == SelectSeq(response, IsObjectLine)
    IN finalContent =
         FramesAggregated([i \in 1..Len(kept) |-> ObjectOf(kept[i])], NothingAggregated)

C28_Witness ==
  /\ xpc = "returned"
  /\ response = <<"A_text", TruncatedText, "data: A_lo">>
  /\ finalContent["choices"][1]["message"]["content"] = <<"Hel", "lo">>

(***************************************************************************)
(* Aggregation of shape-B transcripts with several tool blocks.            *)
(***************************************************************************)
ToolBlocksInit ==
  RelayIdle /\ StoreIdle /\ LogIdle /\ ErrorIdle /\ StreamIdle /\ ExtractFrom(ToolBlockLineTexts)

SpecToolBlocks == ToolBlocksInit /\ [][ExtractNext]_vars

IsBlockStart(line) == line \in {"B_tool_start_0", "B_tool_start_1"}
IsJSONDelta(line) == line \in {"B_json_delta_0", "B_json_delta_1"}

\* the position of the content_block_start that opened the block a delta at
\* position j belongs to: the latest earlier start with the delta's index
Opener(text, j) ==
  LET starts == {p \in 1..(j - 1) :
                   IsBlockStart(text[p])
                     /\ Fragment(text[p])["index"] = Fragment(text[j])["index"]}
  IN IF starts = {} THEN 0 ELSE CHOOSE p \in starts : \A q \in starts : q <= p

\* the partial_json of the deltas of the block opened at position p, in order
RECURSIVE InputOf(_, _, _)
InputOf(text, p, j) ==
  IF j > Len(text) THEN <<>>
  ELSE (IF IsJSONDelta(text[j]) /\ Opener(text, j) = p
          THEN Fragment(text[j])["delta"]["partial_json"] ELSE <<>>)
       \o InputOf(text, p, j + 1)

StartPositions == SelectSeq([p \in 1..Len(response) |-> p], LAMBDA p : IsBlockStart(response[p]))

\* C29 (as claimed): in shape B every input_json_delta is appended to the tool
\* call opened by the content_block_start of its own block index, also when
\* the deltas of several tool blocks interleave.
C29_DeltaJoinsItsBlock ==
  (xpc = "returned"
     /\ \A j \in 1..Len(response) : IsJSONDelta(response[j]) => Opener(response, j) # 0) =>
    /\ Len(toolCalls) = Len(StartPositions)
    /\ \A k \in 1..Len(toolCalls) :
         /\ toolCalls[k]["id"] = Fragment(response[StartPositions[k]])["content_block"]["id"]
         /\ toolCalls[k]["arguments"] = InputOf(response, StartPositions[k], 1)

(***************************************************************************)
(* Selection for a pinned request.                                         *)
(***************************************************************************)
\* C30: a selection for a request pinned to a channel, the pin not ignored,
\* yields the pinned channel when it exists and is enabled and an error of the
\* pinned path otherwise; it never yields another channel nor an outcome of
\* the model-based path.
C30_PinnedOrError ==
  [][(pc = "select" /\ Pinned) =>
       IF specific_channel_id \in Channels
            /\ channels[specific_channel_id].Status = ChannelStatusEnabled
         THEN /\ channel_id' = specific_channel_id
              /\ \/ pc' = "send" /\ fetchErr' = fetchErr
                 \/ pc' = "done" /\ fetchErr' = ErrChannelNotFound
         ELSE /\ pc' = "done"
              /\ channel_id' = channel_id
              /\ fetchErr' = IF specific_channel_id \in Channels
                               THEN ErrChannelDisabled ELSE ErrInvalidChannelId]_vars

C30_Witness ==
  /\ Pinned
  /\ pc = "send"
  /\ channel_id = specific_channel_id
  /\ \E other \in Channels \ {specific_channel_id} :
       channels[other].Status = ChannelStatusEnabled /\ channels[other].Match

(***************************************************************************)
(* Selection: filtering and failures.                                      *)
(***************************************************************************)
\* the channels the request may be served by
Eligible ==
  {c \in Matching : channels[c].Status = ChannelStatusEnabled
                      /\ c \notin Range(skip_channel_ids)}

\* C31 (as claimed): a request pinned to a channel that is not in its group or
\* does not support its model is never served by that channel.
C31_PinKeepsGroupAndModel ==
  (pc = "send" /\ Pinned) => channel_id \in Matching

\* C32 (as claimed): the selected channel is enabled, in the routing group,
\* supports the model and is not in the exclusion list, whatever the list
\* holds.
C32_SelectedIsEligible ==
  [][(pc = "select" /\ pc' = "send") => channel_id' \in Eligible]_vars

ErrorInit == RelayIdle /\ StoreIdle /\ LogIdle /\ ErrorStart /\ StreamIdle /\ ExtractIdle

SpecError == ErrorInit /\ [][RelayResponseWithErr]_vars

\* the correlation ids a message carries, in order
IdsIn(message) == SelectSeq(message, LAMBDA chunk : chunk \in requestIdRegex)

\* C34 (as claimed): the message of every error response carries the current
\* request's correlation id exactly once and no other correlation id.
C34_RequestIdOnce ==
  (sent # NotSent) => IdsIn(sent.error.Message) = <<RequestIdText(requestId)>>

\* C35 (as claimed): an error whose message holds balance or quota vocabulary
\* is answered with the fixed saturation message and status 429, whatever
\* its type.
C35_QuotaRewritten ==
  (sent # NotSent /\ ContainsString(relayErr.Message, quotaKeywords)) =>
    /\ sent.error.Message = SaturatedMessage
    /\ sent.status = StatusTooManyRequests

(***************************************************************************)
(* Streamed delivery with a producer whose frames may wait on the data     *)
(* channel when the terminal signal is taken.                              *)
(***************************************************************************)
PendingNext ==
  \/ StreamNext
  \/ StreamClientEndPending

SpecStreamPending == StreamInit /\ [][PendingNext]_vars

\* the number of terminal markers in a text
RECURSIVE Markers(_)
Markers(text) ==
  IF text = <<>> THEN 0
  ELSE (IF Head(text) = DoneText THEN 1 ELSE 0) + Markers(Tail(text))

EndsWith(text, q) ==
  Len(q) <= Len(text) /\ SubSeq(text, Len(text) - Len(q) + 1, Len(text)) = q

\* C36: the SSE dispatcher writes no terminal marker before it has taken the
\* terminal signal; having taken it, on the error path as on the clean path,
\* it has written the marker exactly once, as the last text, and writes
\* nothing afterwards, also when frames were still waiting.
C36_MarkerOnceAndLast ==
  [][(streamIn.dispatcher = "sse") =>
       /\ (sst'.pc # "returned") => Markers(forwarded') = 0
       /\ (sst'.pc = "returned") =>
            (Markers(forwarded') = 1 /\ EndsWith(forwarded', SSE(DoneText)))
       /\ (sst.pc = "returned") => (forwarded' = forwarded /\ received' = received)]_vars

C36_Witness ==
  /\ streamIn.dispatcher = "sse"
  /\ streamIn.terminal = "error"
  /\ sst.pc = "returned"
  /\ script # <<>>
  /\ received # <<>>
  /\ EndsWith(forwarded, SSE(ErrText) \o SSE(DoneText))

\* C37 (as claimed): in the SSE dispatcher every text appended to the
\* transcript is the text written to the caller for it; on a stream that ends
\* with plain end-of-stream the transcript is the text written.
C37_TranscriptIsForwarded ==
  (streamIn.dispatcher = "sse" /\ streamIn.terminal = "EOF") => transcript = forwarded

(***************************************************************************)
(* The capture store: how a value leaves it, and the shape of its map.     *)
(***************************************************************************)
\* the values the store holds
Stored(d) == UNION {{d[c][k] : k \in DOMAIN d[c]} : c \in DOMAIN d}

\* C38 (as claimed): a value leaves the store only when a later Store on its
\* context and key overwrites it or when the take-and-clear call that
\* deletes it returns that very value.
C38_LeavesOnlyReadOrOverwritten ==
  [][\A v \in Stored(data) \ Stored(data') :
       \/ /\ nextValue' = nextValue + 1
          /\ origin'[nextValue] = origin[v]
       \/ \E p \in Callers :
            /\ spc[p] = "loaded"
            /\ spc'[p] = "idle"
            /\ sret'[p].value = v]_vars

\* the entries of the store other than (ctx, key) are the same in d and e
SameElsewhere(d, e, ctx, key) ==
  /\ \A c \in DOMAIN d : \A k \in DOMAIN d[c] :
       (c # ctx \/ k # key) => (c \in DOMAIN e /\ k \in DOMAIN e[c] /\ e[c][k] = d[c][k])
  /\ \A c \in DOMAIN e : \A k \in DOMAIN e[c] :
       (c # ctx \/ k # key) => (c \in DOMAIN d /\ k \in DOMAIN d[c])

\* C39: after every step no context of the store maps to an empty map, and
\* the Delete of a take-and-clear on (ctx, key) removes that entry and leaves
\* every other key of ctx and every entry of other contexts as they were.
C39_NoEmptyFieldMap ==
  [][/\ \A c \in DOMAIN data' : DOMAIN data'[c] # {}
     /\ \A p \in Callers :
          (spc[p] = "loaded" /\ spc'[p] = "idle") =>
            /\ SameElsewhere(data, data', sreq[p].ctx, sreq[p].key)
            /\ (sreq[p].ctx \in DOMAIN data') =>
                 sreq[p].key \notin DOMAIN data'[sreq[p].ctx]]_vars

C39_Witness ==
  \E p \in Callers :
    /\ sret[p].found
    /\ spc[p] = "idle"
    /\ sret[p].ctx \notin DOMAIN data
    /\ \E c \in DOMAIN data : c # sret[p].ctx

(***************************************************************************)
(* Aggregation of tool-call fragments with unusual index fields.           *)
(***************************************************************************)
ToolIndexInit ==
  RelayIdle /\ StoreIdle /\ LogIdle /\ ErrorIdle /\ StreamIdle /\ ExtractFrom(IndexLineTexts)

SpecToolIndex == ToolIndexInit /\ [][ExtractNext]_vars

\* the tool call of a fragment of one tool call
ToolCallOf(line) == Fragment(line)["choices"][1]["delta"]["tool_calls"][1]

\* the tool call of the line has been merged into the first slot of the list
MergedAtZero(line) ==
  /\ Len(toolCalls') = (IF Len(toolCalls) = 0 THEN 1 ELSE Len(toolCalls))
  /\ toolCalls'[1]["id"] = ToolCallOf(line)["id"]
  /\ toolCalls'[1]["function"]["name"] = ToolCallOf(line)["function"]["name"]
  /\ \A i \in 2..Len(toolCalls) : toolCalls'[i] = toolCalls[i]

\* C40 (as claimed): no line makes the aggregation fail, whatever its
\* tool-call index holds, and a fragment whose index is absent or not a
\* number is merged at index 0.
C40_IndexNeverFails ==
  [][(xpc = "lines" /\ lines # <<>>) =>
       /\ xpc' # "panicked"
       /\ (Head(lines) \in {"T_no_index", "T_text_index"}) => MergedAtZero(Head(lines))]_vars

====
